---- MODULE Spec2Model ----
(***************************************************************************)
(* Release store and delta generation of sc-release-process-exploration.   *)
(*                                                                         *)
(* The state is the content of the ./releases folder (ordered releases,    *)
(* snapshots, the staging folder tmp, generated-delta and its -old backup) *)
(* together with the position of the script that is currently running.     *)
(* Scripts run one after the other (yarn a && yarn b); a script is a       *)
(* sequence of awaited filesystem calls, each of which may fail where the  *)
(* code handles a failure.                                                 *)
(***************************************************************************)
EXTENDS Integers, Sequences, FiniteSets, TLC

----------------------------------------------------------------------------
(* Bounds of the model                                                     *)

\* number of ordered releases the store may hold
MaxReleases == 2

\* number of snapshot releases the store may hold
MaxSnapshots == 1

\* number of release names pushed to and pulled from the storage
MaxCliReleases == 2

\* number of releases the store may hold when the next name is derived
MaxPrepared == 3

----------------------------------------------------------------------------
(* Names                                                                   *)

\* A directory or file base name. semver is TRUE when the string matches
\* /^v\d+\.\d+\.\d+$/ and then major, minor, patch are the parsed numbers;
\* otherwise the three numbers are 0 and id tells the strings apart.
Name(sv, ma, mi, pa, id) ==
    [semver |-> sv, major |-> ma, minor |-> mi, patch |-> pa, id |-> id]

V(ma, mi, pa) == Name(TRUE, ma, mi, pa, 0)

Other(id) == Name(FALSE, 0, 0, 0, id)

\* a test that every name passes
IsAnyName(r) == TRUE

\* /^v\d+\.\d+\.\d+$/.test(r)
IsSemver(r) == r.semver

\* semverStringToSemver: the three parsed numbers
semverStringToSemver(s) ==
    [major |-> s.major, minor |-> s.minor, patch |-> s.patch]

\* the comparator handed to Array.sort in generateDelta: negative, zero, positive
CompareSemver(a, b) ==
    LET semverA == semverStringToSemver(a)
        semverB == semverStringToSemver(b)
    IN  IF semverA.major # semverB.major THEN semverA.major - semverB.major
        ELSE IF semverA.minor # semverB.minor THEN semverA.minor - semverB.minor
        ELSE semverA.patch - semverB.patch

\* a set as a sequence, in some listing order (fs.readdir)
RECURSIVE SetToSeq(_)
SetToSeq(S) ==
    IF S = {} THEN <<>>
    ELSE LET x == CHOOSE y \in S : TRUE IN <<x>> \o SetToSeq(S \ {x})

\* one step of the loop of findLastRelease
LastReleaseStep(last, release) ==
    LET semver == semverStringToSemver(release)
        l1 == IF semver.major > last.major THEN release ELSE last
        l2 == IF semver.major = l1.major /\ semver.minor > l1.minor
              THEN release ELSE l1
        l3 == IF semver.major = l2.major /\ semver.minor = l2.minor
                 /\ semver.patch > l2.patch
              THEN release ELSE l2
    IN  l3

RECURSIVE LastReleaseLoop(_, _, _)
LastReleaseLoop(last, rs, i) ==
    IF i > Len(rs) THEN last
    ELSE LastReleaseLoop(LastReleaseStep(last, rs[i]), rs, i + 1)

\* the first listed release, whatever the others are
findFirstListed(rs) == rs[1]

\* findLastRelease(releases), for a non-empty list of semver names
findLastRelease(rs) == LastReleaseLoop(rs[1], rs, 2)

\* insertion of x into a list sorted ascending by CompareSemver
RECURSIVE InsertSorted(_, _)
InsertSorted(x, s) ==
    IF s = <<>> THEN <<x>>
    ELSE IF CompareSemver(x, Head(s)) < 0 THEN <<x>> \o s
    ELSE <<Head(s)>> \o InsertSorted(x, Tail(s))

RECURSIVE SortReleases(_)
SortReleases(s) ==
    IF s = <<>> THEN <<>> ELSE InsertSorted(Head(s), SortReleases(Tail(s)))

\* previousReleases.sort(...): the releases by ascending (major, minor, patch)
orderedReleasesOf(S) == SortReleases(SetToSeq(S))

----------------------------------------------------------------------------
(* Artifacts                                                               *)

\* an ABI entry: name is the rank of the entry's name in collation order,
\* sig tells entries of the same name apart
AbiItem(n, s) == [name |-> n, sig |-> s]

AbiAB == <<AbiItem(1, 1), AbiItem(2, 1)>>

AbiBA == <<AbiItem(2, 1), AbiItem(1, 1)>>

\* a contract artifact (the fields the scripts read)
Blob(a, b, m) == [abi |-> a, bytecode |-> b, metadata |-> m]

\* no artifact at this key
NoBlob == Blob(<<>>, "none", "none")

CounterAA == Blob(AbiAB, "0xAA", "m1")

CounterBB == Blob(AbiAB, "0xBB", "m1")

\* same ABI and bytecode as CounterAA, other metadata
CounterAAm2 == Blob(AbiAB, "0xAA", "m2")

\* a library or interface: placeholder bytecode
LibAB == Blob(AbiAB, "0x", "m1")

\* LibAB with the ABI entries emitted in the other order
LibBA == Blob(AbiBA, "0x", "m1")

\* the value JSON.parse gives for a field the artifact does not have
Undefined == "undefined"

\* a folder <file>.sol with its .dbg.json file and without its .json file
NoJson == Blob(<<>>, "noJson", "none")

\* artifacts without the bytecode field
NoBytecodeAB == Blob(AbiAB, Undefined, "m1")

NoBytecodeB == Blob(<<AbiItem(2, 1)>>, Undefined, "m1")

\* an artifact key: the folder <path>/<file>.sol and the contract name
Key(p, n) == [path |-> p, name |-> n]

KCounter == Key("src", "Counter")

KCounterDup == Key("src/lib", "Counter")

KOracle == Key("src", "IncrementOracle")

\* the keys in the order lookForContractArtifact yields them
KeyOrder == <<KCounter, KOracle, KCounterDup>>

Keys == {KeyOrder[i] : i \in 1..Len(KeyOrder)}

ContractNames == {k.name : k \in Keys}

\* the content of <folder>/artifacts/src with these artifacts at the keys
Arts(counter, oracle, dup) ==
    [k \in Keys |-> IF k = KCounter THEN counter
                    ELSE IF k = KOracle THEN oracle ELSE dup]

\* the compilations the model draws from
ArtifactSets ==
    {Arts(CounterAA, NoBlob, NoBlob),
     Arts(CounterBB, NoBlob, NoBlob),
     Arts(CounterAAm2, NoBlob, NoBlob),
     Arts(CounterAA, LibAB, NoBlob),
     Arts(CounterAA, LibBA, NoBlob),
     Arts(NoBlob, LibAB, NoBlob),
     Arts(CounterBB, NoBlob, CounterAA)}

NoArtifacts == [k \in Keys |-> NoBlob]

\* lookForContractArtifact(dir): the entries it yields, in order
RECURSIVE YieldFrom(_, _)
YieldFrom(arts, i) ==
    IF i > Len(KeyOrder) THEN <<>>
    ELSE (IF arts[KeyOrder[i]] \notin {NoBlob, NoJson}
          THEN <<[contractName |-> KeyOrder[i].name, key |-> KeyOrder[i],
                  blob |-> arts[KeyOrder[i]]]>>
          ELSE <<>>) \o YieldFrom(arts, i + 1)

lookForContractArtifact(arts) == YieldFrom(arts, 1)

\* stable insertion sort of ABI entries by name (Array.sort with localeCompare)
RECURSIVE InsertAbi(_, _)
InsertAbi(x, s) ==
    IF s = <<>> THEN <<x>>
    ELSE IF x.name < Head(s).name THEN <<x>> \o s
    ELSE <<Head(s)>> \o InsertAbi(x, Tail(s))

RECURSIVE SortAbi(_)
SortAbi(abi) ==
    IF abi = <<>> THEN <<>>
    ELSE InsertAbi(abi[Len(abi)], SortAbi(SubSeq(abi, 1, Len(abi) - 1)))

\* hashContract without the sort of the ABI entries
hashContractUnsorted(contract) ==
    <<contract.abi, contract.bytecode, contract.metadata>>

\* hashContract: sha256 over the sorted ABI entries, the bytecode object and
\* the metadata; the digest is modelled by the data it is fed
hashContract(contract) ==
    <<SortAbi(contract.abi), contract.bytecode, contract.metadata>>

\* the change test of compareAndGenerate on (last stored, current)
ArtifactChanged(lastReleaseArtifactJson, currentReleaseArtifactJson) ==
    LET isDeployable == currentReleaseArtifactJson.bytecode # "0x"
    IN  \/ /\ isDeployable
           /\ lastReleaseArtifactJson.bytecode # currentReleaseArtifactJson.bytecode
        \/ /\ ~isDeployable
           /\ lastReleaseArtifactJson.abi # currentReleaseArtifactJson.abi

----------------------------------------------------------------------------
(* Directories of the store                                                *)

\* a generated-delta folder: build-infos/<entry>.json (from says which folder
\* the build info was copied from) and contracts/<contract>/<entry>.json
AbsentDir == [exists |-> FALSE, bi |-> {}, c |-> {}]

EmptyDir == [exists |-> TRUE, bi |-> {}, c |-> {}]

\* fs.copyFile(<build info>, build-infos/<entry>.json): creates or overwrites
copyBuildInfo(dir, entry, from) ==
    [dir EXCEPT !.bi = {f \in @ : f.entry # entry}
                        \cup {[entry |-> entry, from |-> from]}]

\* fs.copyFile(entry.filePath, contracts/<contract>/<entry>.json)
copyArtifact(dir, contract, entry, blob) ==
    [dir EXCEPT !.c = {f \in @ : ~(f.contract = contract /\ f.entry = entry)}
                       \cup {[contract |-> contract, entry |-> entry,
                              blob |-> blob]}]

\* fs.readdir(contracts/<contract>), without the .json extension
StoredEntries(dir, contract) == {f.entry : f \in {g \in dir.c : g.contract = contract}}

\* the artifact stored at contracts/<contract>/<entry>.json
StoredBlob(dir, contract, entry) ==
    (CHOOSE f \in dir.c : f.contract = contract /\ f.entry = entry).blob

\* the loop of initGeneratedFiles: mkdir of an existing contract folder throws
RECURSIVE InitLoop(_, _, _, _)
InitLoop(dir, releaseName, entries, i) ==
    IF i > Len(entries) THEN [ok |-> TRUE, dir |-> dir]
    ELSE IF StoredEntries(dir, entries[i].contractName) # {}
         THEN [ok |-> FALSE, dir |-> dir]
         ELSE InitLoop(copyArtifact(dir, entries[i].contractName, releaseName,
                                    entries[i].blob),
                       releaseName, entries, i + 1)

initGeneratedFiles(dir, releaseName, arts) ==
    InitLoop(copyBuildInfo(dir, releaseName, "release"), releaseName,
             lookForContractArtifact(arts), 1)

\* the loop of compareAndGenerate; createdFiles and createdFolders are the
\* lengths of the two lists
RECURSIVE CompareLoop(_, _, _, _, _, _)
CompareLoop(dir, releaseName, entries, i, createdFiles, createdFolders) ==
    IF i > Len(entries)
    THEN [ok |-> TRUE, dir |-> dir,
          empty |-> (createdFiles = 1 /\ createdFolders = 0)]
    ELSE LET contract == entries[i].contractName
             previousReleases == StoredEntries(dir, contract)
         IN  IF previousReleases = {}
             THEN CompareLoop(copyArtifact(dir, contract, releaseName,
                                           entries[i].blob),
                              releaseName, entries, i + 1,
                              createdFiles, createdFolders + 1)
             ELSE IF \E r \in previousReleases : ~IsSemver(r)
             THEN [ok |-> FALSE, dir |-> dir, empty |-> FALSE]
             ELSE LET lastRelease == findLastRelease(SetToSeq(previousReleases))
                      lastBlob == StoredBlob(dir, contract, lastRelease)
                  IN  IF ArtifactChanged(lastBlob, entries[i].blob)
                      THEN CompareLoop(copyArtifact(dir, contract, releaseName,
                                                    entries[i].blob),
                                       releaseName, entries, i + 1,
                                       createdFiles + 1, createdFolders)
                      ELSE CompareLoop(dir, releaseName, entries, i + 1,
                                       createdFiles, createdFolders)

\* a comparison that never reports an empty release
compareAndGenerateWithoutGuard(dir, releaseName, arts) ==
    [CompareLoop(copyBuildInfo(dir, releaseName, "release"), releaseName,
                 lookForContractArtifact(arts), 1, 1, 0) EXCEPT !.empty = FALSE]

compareAndGenerate(dir, releaseName, arts) ==
    CompareLoop(copyBuildInfo(dir, releaseName, "release"), releaseName,
                lookForContractArtifact(arts), 1, 1, 0)

RECURSIVE SnapshotLoop(_, _, _, _)
SnapshotLoop(dir, snapshotReleaseName, entries, i) ==
    IF i > Len(entries) THEN dir
    ELSE SnapshotLoop(copyArtifact(dir, entries[i].contractName,
                                   snapshotReleaseName, entries[i].blob),
                      snapshotReleaseName, entries, i + 1)

copySnapshotArtifacts(dir, snapshotReleaseName, arts) ==
    SnapshotLoop(copyBuildInfo(dir, snapshotReleaseName, "snapshot"),
                 snapshotReleaseName, lookForContractArtifact(arts), 1)

----------------------------------------------------------------------------
(* State                                                                   *)

VARIABLES
    hasReleases,  \* the ./releases folder exists
    releases,     \* name -> artifacts of every release folder releases/<name>
    snapshots,    \* name -> artifacts of every releases/snapshots/<name>
    tmp,          \* releases/tmp, the staging folder
    delta,        \* releases/generated-delta
    deltaOld,     \* releases/generated-delta-old
    pc,           \* position of the running script; "done" once its process
                  \* has exited, "idle" before the next script starts
    gd,           \* locals of the running script
    pre,          \* the store when the running (or last) script started,
                  \* and the last generated-delta a run has completed (good)
    faults,       \* the filesystem calls that failed in the running script
    last,         \* how the last script ended
    cli,          \* the releases of the storage and those pulled locally
    build,        \* the distribution folders dist and abis, their -old and
                  \* -tmp folders, and the locals of the running build
    chunk,        \* the characters of the JSON document still to be read
    contractTracker,  \* the state of the MoreInvolvedTracker
    ref           \* the structure of the characters read so far, as the
                  \* JSON grammar defines it

vars == <<hasReleases, releases, snapshots, tmp, delta, deltaOld, pc, gd, pre,
          faults, last, cli, build, chunk, contractTracker, ref>>

parsing == <<chunk, contractTracker, ref>>

store == <<hasReleases, releases, snapshots, tmp, delta, deltaOld>>

NoName == Other(0)

\* directory names under ./releases that are not release folders
TmpDir == Other(101)

GeneratedDeltaDir == Other(102)

SnapshotsDir == Other(103)

GeneratedDeltaOldDir == Other(104)

NoTmp == [exists |-> FALSE, arts |-> NoArtifacts]

EmptyFun == [x \in {} |-> NoArtifacts]

\* fs.readdir("./releases")
ReaddirReleases ==
    DOMAIN releases
      \cup (IF tmp.exists THEN {TmpDir} ELSE {})
      \cup (IF delta.exists THEN {GeneratedDeltaDir} ELSE {})
      \cup (IF DOMAIN snapshots # {} THEN {SnapshotsDir} ELSE {})
      \cup (IF deltaOld.exists THEN {GeneratedDeltaOldDir} ELSE {})

\* a filter that takes generated-delta-old out of the listing as well
PreviousReleasesWithoutBackup ==
    {r \in ReaddirReleases :
        r \notin {TmpDir, GeneratedDeltaDir, SnapshotsDir, GeneratedDeltaOldDir}}

\* releases.filter((r) => !["tmp", "generated-delta", "snapshots"].includes(r))
PreviousReleases ==
    {r \in ReaddirReleases : r \notin {TmpDir, GeneratedDeltaDir, SnapshotsDir}}

StoreNow ==
    [hasReleases |-> hasReleases, releases |-> releases, snapshots |-> snapshots,
     tmp |-> tmp, delta |-> delta, deltaOld |-> deltaOld,
     build |-> build.folders, good |-> pre.good]

NoLocals ==
    [hasGeneratedDeltaFolder |-> FALSE, orderedReleases |-> <<>>, i |-> 0,
     j |-> 0, err |-> "none", offender |-> NoName, target |-> NoName]

\* a script that prints no result
NoOutput ==
    [fresh |-> NoArtifacts, latest |-> NoArtifacts, differences |-> <<>>,
     releasesToPull |-> {}, how |-> <<>>, pulledReleases |-> {},
     failedReleases |-> {}, force |-> FALSE, existed |-> FALSE]

NoScript ==
    [op |-> "none", exitCode |-> 0, reason |-> "none", offender |-> NoName,
     success |-> FALSE, output |-> NoOutput]

\* the script returns and its process exits; success tells whether it has
\* printed its success message, output is the result it has printed
FinishOutput(op, exitCode, reason, offender, success, output) ==
    /\ pc' = "done"
    /\ last' = [op |-> op, exitCode |-> exitCode, reason |-> reason,
                offender |-> offender, success |-> success,
                output |-> output]

FinishWith(op, exitCode, reason, offender, success) ==
    FinishOutput(op, exitCode, reason, offender, success, NoOutput)

\* the scripts of the release process print their success message on the
\* path that ends with reason "ok" and nowhere else
Finish(op, exitCode, reason, offender) ==
    FinishWith(op, exitCode, reason, offender, reason = "ok")

\* the two distribution folders: dist of build.ts, abis of
\* build-exposed-abis.ts
Targets == {"dist", "abis"}

\* no distribution folder, no build running; a folder is "absent", holds the
\* bundle "A" or "B", or holds a "partial" bundle
NoBuild ==
    [folders |-> [t \in Targets |->
                    [dir |-> "absent", old |-> "absent", tmp |-> FALSE]],
     target |-> "dist", hasFolder |-> FALSE, bundle |-> "A"]

\* index: number | null of an ArrayState, null before the first item
Null == -1

\* currentLevel: an ObjectState or an ArrayState; the fields a status does
\* not have hold <<>>, Null or FALSE. A string is the sequence of its
\* characters.
Level(type, status, key, index, isNextCharEscaped) ==
    [type |-> type, status |-> status, key |-> key, index |-> index,
     isNextCharEscaped |-> isNextCharEscaped]

\* currentLevel: undefined
NoLevel == Level("undefined", "undefined", <<>>, Null, FALSE)

\* an entry of state.levels
ParentLevel(type, key, index) == [type |-> type, key |-> key, index |-> index]

\* recordingKey: undefined, which is not the empty string
NoKey == [defined |-> FALSE, key |-> <<>>]

\* the state of a new MoreInvolvedTracker; thrown is set when onChar throws
NoTracker ==
    [levels |-> <<>>, currentLevel |-> NoLevel, recordingKey |-> NoKey,
     contracts |-> <<>>, thrown |-> FALSE]

\* nothing read yet: no container open, not inside a string
NoRef ==
    [open |-> <<>>, inString |-> FALSE, escaped |-> FALSE, text |-> <<>>,
     raw |-> <<>>, closed |-> [is |-> FALSE, key |-> <<>>, raw |-> <<>>]]

\* the release names the command line tool is used with
CliReleases == {V(1, i, 0) : i \in 0..(MaxCliReleases - 1)}

\* nothing on the storage, nothing pulled: local[r] is "absent", "empty" (the
\* folder without a whole build-info.json) or "complete"
NoCli == [remote |-> {}, local |-> [r \in CliReleases |-> "absent"]]

Init ==
    /\ hasReleases = FALSE
    /\ releases = EmptyFun
    /\ snapshots = EmptyFun
    /\ tmp = NoTmp
    /\ delta = AbsentDir
    /\ deltaOld = AbsentDir
    /\ pc = "idle"
    /\ gd = NoLocals
    /\ pre = [hasReleases |-> FALSE, releases |-> EmptyFun,
              snapshots |-> EmptyFun, tmp |-> NoTmp, delta |-> AbsentDir,
              deltaOld |-> AbsentDir, build |-> NoBuild.folders,
              good |-> AbsentDir]
    /\ faults = {}
    /\ last = NoScript
    /\ cli = NoCli
    /\ build = NoBuild
    /\ chunk = <<>>
    /\ contractTracker = NoTracker
    /\ ref = NoRef

----------------------------------------------------------------------------
(* generate-delta.ts                                                       *)

\* the snapshots in the order fs.readdir("./releases/snapshots") lists them
SnapshotList == SetToSeq(DOMAIN snapshots)

\* lines 38-75: the checks before anything is written
GD_Start ==
    /\ pc = "idle"
    /\ UNCHANGED <<cli, build, parsing>>
    /\ pre' = StoreNow
    /\ faults' = {}
    /\ UNCHANGED store
    /\ IF ~hasReleases
       THEN /\ Finish("generateDelta", 1, "noReleasesFolder", NoName)
            /\ gd' = NoLocals
       ELSE IF PreviousReleases = {}
       THEN /\ Finish("generateDelta", 1, "noReleases", NoName)
            /\ gd' = NoLocals
       ELSE IF \E r \in PreviousReleases : ~IsSemver(r)
       THEN /\ Finish("generateDelta", 1, "invalidReleases", NoName)
            /\ gd' = NoLocals
       ELSE /\ pc' = "gdBackup"
            /\ gd' = [NoLocals EXCEPT
                        !.orderedReleases = SetToSeq(PreviousReleases)]
            /\ UNCHANGED last

\* a backup step that drops the current generated-delta instead of renaming
GD_BackupByRemoval(f) ==
    /\ pc = "gdBackup"
    /\ UNCHANGED <<cli, build, parsing>>
    /\ f \in {"none", "rmOld", "renameToOld"}
    /\ f = "rmOld" => delta.exists /\ deltaOld.exists
    /\ f = "renameToOld" => delta.exists
    /\ faults' = IF f = "none" THEN faults ELSE faults \cup {f}
    /\ UNCHANGED <<hasReleases, releases, snapshots, tmp, pre, last>>
    /\ pc' = "gdMkdir"
    /\ gd' = [gd EXCEPT !.hasGeneratedDeltaFolder = delta.exists]
    /\ deltaOld' = AbsentDir
    /\ delta' = AbsentDir

\* lines 80-113: move the current generated-delta to generated-delta-old
GD_Backup(f) ==
    /\ pc = "gdBackup"
    /\ UNCHANGED <<cli, build, parsing>>
    /\ f \in {"none", "rmOld", "renameToOld"}
    /\ f = "rmOld" => delta.exists /\ deltaOld.exists
    /\ f = "renameToOld" => delta.exists
    /\ faults' = IF f = "none" THEN faults ELSE faults \cup {f}
    /\ UNCHANGED <<hasReleases, releases, snapshots, tmp, pre>>
    /\ IF ~delta.exists
       THEN /\ pc' = "gdMkdir"
            /\ gd' = [gd EXCEPT !.hasGeneratedDeltaFolder = FALSE]
            /\ UNCHANGED <<delta, deltaOld, last>>
       ELSE IF f = "rmOld"
       THEN /\ Finish("generateDelta", 1, "removeOldFailed", NoName)
            /\ UNCHANGED <<delta, deltaOld, gd>>
       ELSE IF f = "renameToOld"
       THEN /\ Finish("generateDelta", 1, "renameFailed", NoName)
            /\ deltaOld' = AbsentDir
            /\ UNCHANGED <<delta, gd>>
       ELSE /\ pc' = "gdMkdir"
            /\ gd' = [gd EXCEPT !.hasGeneratedDeltaFolder = TRUE]
            /\ deltaOld' = delta
            /\ delta' = AbsentDir
            /\ UNCHANGED last

\* lines 115-140: create the fresh generated-delta and order the releases
GD_Mkdir(f) ==
    /\ pc = "gdMkdir"
    /\ UNCHANGED <<cli, build, parsing>>
    /\ f \in {"none", "mkdir"}
    /\ faults' = IF f = "none" THEN faults ELSE faults \cup {f}
    /\ UNCHANGED <<hasReleases, releases, snapshots, tmp, deltaOld, pre>>
    /\ IF f = "mkdir"
       THEN /\ Finish("generateDelta", 1, "mkdirFailed", NoName)
            /\ UNCHANGED <<delta, gd>>
       ELSE /\ pc' = "gdInit"
            /\ delta' = EmptyDir
            /\ gd' = [gd EXCEPT
                        !.orderedReleases = SortReleases(gd.orderedReleases)]
            /\ UNCHANGED last

\* lines 143-146: the first release
GD_Init(f) ==
    /\ pc = "gdInit"
    /\ UNCHANGED <<cli, build, parsing>>
    /\ f \in {"none", "populate"}
    /\ faults' = IF f = "none" THEN faults ELSE faults \cup {f}
    /\ UNCHANGED <<hasReleases, releases, snapshots, tmp, deltaOld, pre, last>>
    /\ LET firstRelease == gd.orderedReleases[1]
           r == initGeneratedFiles(delta, firstRelease, releases[firstRelease])
       IN  IF f = "populate"
           THEN /\ pc' = "gdCatch"
                /\ gd' = [gd EXCEPT !.err = "io"]
                /\ UNCHANGED delta
           ELSE IF ~r.ok
           THEN /\ pc' = "gdCatch"
                /\ gd' = [gd EXCEPT !.err = "mkdirExists"]
                /\ delta' = r.dir
           ELSE /\ pc' = "gdLoop"
                /\ gd' = [gd EXCEPT !.i = 2, !.j = 1]
                /\ delta' = r.dir

\* lines 149-158: one iteration over the later releases
GD_Compare(f) ==
    /\ pc = "gdLoop"
    /\ UNCHANGED <<cli, build, parsing>>
    /\ gd.i <= Len(gd.orderedReleases)
    /\ f \in {"none", "populate"}
    /\ faults' = IF f = "none" THEN faults ELSE faults \cup {f}
    /\ UNCHANGED <<hasReleases, releases, snapshots, tmp, deltaOld, pre, last>>
    /\ LET release == gd.orderedReleases[gd.i]
           r == compareAndGenerate(delta, release, releases[release])
       IN  IF f = "populate"
           THEN /\ pc' = "gdCatch"
                /\ gd' = [gd EXCEPT !.err = "io"]
                /\ UNCHANGED delta
           ELSE IF ~r.ok
           THEN /\ pc' = "gdCatch"
                /\ gd' = [gd EXCEPT !.err = "invalidStored"]
                /\ delta' = r.dir
           ELSE IF r.empty
           THEN /\ pc' = "gdCatch"
                /\ gd' = [gd EXCEPT !.err = "emptyRelease", !.offender = release]
                /\ delta' = r.dir
           ELSE /\ pc' = "gdLoop"
                /\ gd' = [gd EXCEPT !.i = gd.i + 1]
                /\ delta' = r.dir

\* lines 160-168: one iteration over the snapshots
GD_Snapshot(f) ==
    /\ pc = "gdLoop"
    /\ UNCHANGED <<cli, build, parsing>>
    /\ gd.i > Len(gd.orderedReleases)
    /\ gd.j <= Len(SnapshotList)
    /\ f \in {"none", "populate"}
    /\ faults' = IF f = "none" THEN faults ELSE faults \cup {f}
    /\ UNCHANGED <<hasReleases, releases, snapshots, tmp, deltaOld, pre, last>>
    /\ LET snapshot == SnapshotList[gd.j]
       IN  IF f = "populate"
           THEN /\ pc' = "gdCatch"
                /\ gd' = [gd EXCEPT !.err = "io"]
                /\ UNCHANGED delta
           ELSE /\ pc' = "gdLoop"
                /\ gd' = [gd EXCEPT !.j = gd.j + 1]
                /\ delta' = copySnapshotArtifacts(delta, snapshot,
                                                  snapshots[snapshot])

\* a last step that puts the previous generated-delta back in place of the
\* new one
GD_FinishOverPrevious(f) ==
    /\ pc = "gdLoop"
    /\ UNCHANGED <<cli, build, parsing>>
    /\ gd.i > Len(gd.orderedReleases)
    /\ gd.j > Len(SnapshotList)
    /\ f \in {"none", "rmOldFinal"}
    /\ f = "rmOldFinal" => gd.hasGeneratedDeltaFolder
    /\ faults' = IF f = "none" THEN faults ELSE faults \cup {f}
    /\ UNCHANGED <<hasReleases, releases, snapshots, tmp, pre, gd>>
    /\ delta' = IF gd.hasGeneratedDeltaFolder THEN deltaOld ELSE delta
    /\ deltaOld' = IF gd.hasGeneratedDeltaFolder THEN AbsentDir ELSE deltaOld
    /\ Finish("generateDelta", 0, "ok", NoName)

\* lines 170-183: drop the backup, report success
GD_Finish(f) ==
    /\ pc = "gdLoop"
    /\ UNCHANGED <<cli, build, parsing>>
    /\ gd.i > Len(gd.orderedReleases)
    /\ gd.j > Len(SnapshotList)
    /\ f \in {"none", "rmOldFinal"}
    /\ f = "rmOldFinal" => gd.hasGeneratedDeltaFolder
    /\ faults' = IF f = "none" THEN faults ELSE faults \cup {f}
    /\ UNCHANGED <<hasReleases, releases, snapshots, tmp, delta, gd>>
    /\ pre' = [pre EXCEPT !.good = delta]
    /\ deltaOld' = IF gd.hasGeneratedDeltaFolder /\ f = "none"
                   THEN AbsentDir ELSE deltaOld
    /\ Finish("generateDelta", 0, "ok", NoName)

\* lines 184-213: remove the new folder, start the rename of the backup and
\* return without waiting for it
GD_Catch(f) ==
    /\ pc = "gdCatch"
    /\ UNCHANGED <<cli, build, parsing>>
    /\ f \in {"none", "rmNew"}
    /\ faults' = IF f = "none" THEN faults ELSE faults \cup {f}
    /\ UNCHANGED <<hasReleases, releases, snapshots, tmp, deltaOld, pre, gd>>
    /\ delta' = IF f = "rmNew" THEN delta ELSE AbsentDir
    /\ IF deltaOld.exists
       THEN /\ pc' = "gdRenamePending"
            /\ last' = [op |-> "generateDelta", exitCode |-> 1,
                        reason |-> gd.err, offender |-> gd.offender,
                        success |-> FALSE, output |-> NoOutput]
       ELSE Finish("generateDelta", 1, gd.err, gd.offender)

\* a catch block that leaves generated-delta-old where it is
GD_RollbackWithoutRename(f) ==
    /\ pc = "gdRenamePending"
    /\ UNCHANGED <<cli, build, parsing>>
    /\ f \in {"none", "renameBack"}
    /\ faults' = IF f = "none" THEN faults ELSE faults \cup {f}
    /\ UNCHANGED <<hasReleases, releases, snapshots, tmp, pre, gd, last>>
    /\ pc' = "done"
    /\ UNCHANGED <<delta, deltaOld>>

\* the rename started at line 198 settles; the process exits after it
GD_RollbackRename(f) ==
    /\ pc = "gdRenamePending"
    /\ UNCHANGED <<cli, build, parsing>>
    /\ f \in {"none", "renameBack"}
    /\ faults' = IF f = "none" THEN faults ELSE faults \cup {f}
    /\ UNCHANGED <<hasReleases, releases, snapshots, tmp, pre, gd, last>>
    /\ pc' = "done"
    /\ IF f = "renameBack" \/ (delta.exists /\ delta # EmptyDir)
       THEN UNCHANGED <<delta, deltaOld>>
       ELSE /\ delta' = deltaOld
            /\ deltaOld' = AbsentDir

----------------------------------------------------------------------------
(* compile.ts                                                              *)

\* fs.rm("./releases/tmp", { recursive: true }).catch(warn)
RemoveTmp(F) == tmp' = IF "rm" \in F THEN tmp ELSE NoTmp

\* fs.rm("./releases", { recursive: true }).catch(warn)
RemoveReleasesFolder(F) ==
    IF "rm" \in F
    THEN UNCHANGED store
    ELSE /\ hasReleases' = FALSE
         /\ releases' = EmptyFun
         /\ snapshots' = EmptyFun
         /\ tmp' = NoTmp
         /\ delta' = AbsentDir
         /\ deltaOld' = AbsentDir

\* the release plan of changesets: n releases planned, the first one being
\* newVersion
Plan(n, newVersion) == [n |-> n, newVersion |-> newVersion]

\* lines 175-181: the last release is after the new release
LastIsAfter(lastRelease, newReleaseSemver) ==
    \/ lastRelease.major > newReleaseSemver.major
    \/ /\ lastRelease.major = newReleaseSemver.major
       /\ lastRelease.minor > newReleaseSemver.minor
    \/ /\ lastRelease.major = newReleaseSemver.major
       /\ lastRelease.minor = newReleaseSemver.minor
       /\ lastRelease.patch > newReleaseSemver.patch

\* lines 62-71: hardhat compile --config hardhat.config.release.ts
CR_Compile(arts, f) ==
    /\ pc = "idle"
    /\ UNCHANGED <<cli, build, parsing>>
    /\ f \in {"none", "compile"}
    /\ pre' = StoreNow
    /\ faults' = IF f = "none" THEN {} ELSE {f}
    /\ gd' = NoLocals
    /\ UNCHANGED <<releases, snapshots, delta, deltaOld>>
    /\ IF f = "compile"
       THEN /\ Finish("compileForRelease", 1, "compileFailed", NoName)
            /\ UNCHANGED <<hasReleases, tmp>>
       ELSE /\ pc' = "crCommit"
            /\ hasReleases' = TRUE
            /\ tmp' = [exists |-> TRUE, arts |-> arts]
            /\ UNCHANGED last

\* lines 73-214: validate the planned version and rename tmp to it
CR_Commit(plan, F) ==
    /\ pc = "crCommit"
    /\ UNCHANGED <<cli, build, parsing>>
    /\ F \subseteq {"rename", "rm"}
    /\ UNCHANGED <<pre, gd>>
    /\ IF plan.n # 1
       THEN /\ F \subseteq {"rm"}
            /\ faults' = faults \cup F
            /\ RemoveTmp(F)
            /\ UNCHANGED <<hasReleases, releases, snapshots, delta, deltaOld>>
            /\ Finish("compileForRelease", 1, "releasePlan", NoName)
       ELSE IF ~IsSemver(plan.newVersion)
       THEN /\ F \subseteq {"rm"}
            /\ faults' = faults \cup F
            /\ RemoveTmp(F)
            /\ UNCHANGED <<hasReleases, releases, snapshots, delta, deltaOld>>
            /\ Finish("compileForRelease", 1, "invalidVersion", plan.newVersion)
       ELSE IF PreviousReleases = {}
       THEN /\ "rm" \in F => "rename" \in F
            /\ faults' = faults \cup F
            /\ IF "rename" \in F
               THEN /\ RemoveReleasesFolder(F)
                    /\ Finish("compileForRelease", 1, "renameFailed",
                              plan.newVersion)
               ELSE /\ releases' = (plan.newVersion :> tmp.arts)
                    /\ tmp' = NoTmp
                    /\ UNCHANGED <<hasReleases, snapshots, delta, deltaOld>>
                    /\ Finish("compileForRelease", 0, "ok", plan.newVersion)
       ELSE IF \E r \in PreviousReleases : ~IsSemver(r)
       THEN /\ F \subseteq {"rm"}
            /\ faults' = faults \cup F
            /\ RemoveTmp(F)
            /\ UNCHANGED <<hasReleases, releases, snapshots, delta, deltaOld>>
            /\ Finish("compileForRelease", 1, "invalidReleases", NoName)
       ELSE LET lastRelease == findLastRelease(SetToSeq(PreviousReleases))
                newReleaseSemver == semverStringToSemver(plan.newVersion)
                \* renaming onto an existing, non-empty folder fails
                renameFails == "rename" \in F
                               \/ plan.newVersion \in DOMAIN releases
            IN  IF LastIsAfter(semverStringToSemver(lastRelease),
                               newReleaseSemver)
                THEN /\ F \subseteq {"rm"}
                     /\ faults' = faults \cup F
                     /\ RemoveTmp(F)
                     /\ UNCHANGED <<hasReleases, releases, snapshots, delta,
                                    deltaOld>>
                     /\ Finish("compileForRelease", 1, "notAfterLast",
                               plan.newVersion)
                ELSE /\ "rm" \in F => renameFails
                     /\ faults' = faults \cup F
                     /\ UNCHANGED <<hasReleases, snapshots, delta, deltaOld>>
                     /\ IF renameFails
                        THEN /\ RemoveTmp(F)
                             /\ UNCHANGED releases
                             /\ Finish("compileForRelease", 1, "renameFailed",
                                       plan.newVersion)
                        ELSE /\ releases' = (plan.newVersion :> tmp.arts)
                                              @@ releases
                             /\ tmp' = NoTmp
                             /\ Finish("compileForRelease", 0, "ok",
                                       plan.newVersion)

----------------------------------------------------------------------------
(* create-snapshot-release.ts                                              *)

\* lines 18-70 and 128-161: compile and rename tmp to snapshots/<name>
CreateSnapshot(snapshotName, arts, f) ==
    /\ pc = "idle"
    /\ UNCHANGED <<cli, build, parsing>>
    /\ f \in {"none", "rename"}
    /\ pre' = StoreNow
    /\ gd' = NoLocals
    /\ UNCHANGED <<releases, delta, deltaOld>>
    /\ IF snapshotName \in DOMAIN snapshots
       THEN /\ f = "none"
            /\ faults' = {}
            /\ UNCHANGED <<hasReleases, snapshots, tmp>>
            /\ Finish("createSnapshotRelease", 1, "snapshotExists", snapshotName)
       ELSE IF f = "rename"
       THEN /\ faults' = {f}
            /\ hasReleases' = TRUE
            /\ tmp' = NoTmp
            /\ UNCHANGED snapshots
            /\ Finish("createSnapshotRelease", 1, "copyFailed", snapshotName)
       ELSE /\ faults' = {}
            /\ hasReleases' = TRUE
            /\ tmp' = NoTmp
            /\ snapshots' = (snapshotName :> arts) @@ snapshots
            /\ Finish("createSnapshotRelease", 0, "ok", snapshotName)

----------------------------------------------------------------------------
(* prepare-release.ts, the version that also fills generated-delta         *)

\* releases.filter(r => !['tmp', 'generated-delta'].includes(r))
PreviousReleasesOld ==
    {r \in ReaddirReleases : r \notin {TmpDir, GeneratedDeltaDir}}

\* hardhat compile --config hardhat.config.release.ts, run before the script
HardhatCompile(arts) ==
    /\ pc = "idle"
    /\ UNCHANGED <<cli, build, parsing>>
    /\ hasReleases' = TRUE
    /\ tmp' = [exists |-> TRUE, arts |-> arts]
    /\ UNCHANGED <<releases, snapshots, delta, deltaOld, pc, gd, pre, faults,
                   last>>

\* the loop of the older compareAndGenerate: bytecode comparison only
RECURSIVE CompareLoopOld(_, _, _, _, _, _)
CompareLoopOld(dir, releaseName, entries, i, createdFiles, createdFolders) ==
    IF i > Len(entries)
    THEN [ok |-> ~(createdFiles = 1 /\ createdFolders = 0), dir |-> dir]
    ELSE LET contract == entries[i].contractName
             previousReleases == StoredEntries(dir, contract)
         IN  IF previousReleases = {}
             THEN CompareLoopOld(copyArtifact(dir, contract, releaseName,
                                              entries[i].blob),
                                 releaseName, entries, i + 1,
                                 createdFiles, createdFolders + 1)
             ELSE IF \E r \in previousReleases : ~IsSemver(r)
             THEN [ok |-> FALSE, dir |-> dir]
             ELSE LET lastRelease == findLastRelease(SetToSeq(previousReleases))
                      lastBlob == StoredBlob(dir, contract, lastRelease)
                  IN  IF lastBlob.bytecode # entries[i].blob.bytecode
                      THEN CompareLoopOld(copyArtifact(dir, contract,
                                                       releaseName,
                                                       entries[i].blob),
                                          releaseName, entries, i + 1,
                                          createdFiles + 1, createdFolders)
                      ELSE CompareLoopOld(dir, releaseName, entries, i + 1,
                                          createdFiles, createdFolders)

\* the older compareAndGenerate: throws on an empty release, and on any
\* error deletes the files and folders it created
compareAndGenerateOld(dir, releaseName, arts) ==
    IF ~dir.exists THEN [ok |-> FALSE, dir |-> dir]
    ELSE LET r == CompareLoopOld(copyBuildInfo(dir, releaseName, "release"),
                                 releaseName, lookForContractArtifact(arts),
                                 1, 1, 0)
         IN  IF r.ok THEN r ELSE [ok |-> FALSE, dir |-> dir]

\* lines 408-433 and 446-462: checks, name of the release, rename of tmp
PR_Start(F) ==
    /\ pc = "idle"
    /\ UNCHANGED <<cli, build, parsing>>
    /\ F \subseteq {"rename", "rm"}
    /\ pre' = StoreNow
    /\ IF ~hasReleases \/ ~tmp.exists
       THEN /\ F = {}
            /\ faults' = {}
            /\ gd' = NoLocals
            /\ UNCHANGED store
            /\ Finish("prepareRelease", 1, "noStaging", NoName)
       ELSE IF PreviousReleasesOld = {}
       THEN /\ "rm" \in F => "rename" \in F
            /\ faults' = F
            /\ IF "rename" \in F
               THEN /\ RemoveReleasesFolder(F)
                    /\ gd' = NoLocals
                    /\ Finish("prepareRelease", 1, "renameFailed", V(1, 0, 0))
               ELSE /\ releases' = (V(1, 0, 0) :> tmp.arts)
                    /\ tmp' = NoTmp
                    /\ gd' = [NoLocals EXCEPT !.target = V(1, 0, 0)]
                    /\ pc' = "prInit"
                    /\ UNCHANGED <<hasReleases, snapshots, delta, deltaOld,
                                   last>>
       ELSE IF \E r \in PreviousReleasesOld : ~IsSemver(r)
       THEN /\ F \subseteq {"rm"}
            /\ faults' = F
            /\ gd' = NoLocals
            /\ RemoveTmp(F)
            /\ UNCHANGED <<hasReleases, releases, snapshots, delta, deltaOld>>
            /\ Finish("prepareRelease", 1, "invalidReleases", NoName)
       ELSE LET lastRelease == findLastRelease(SetToSeq(PreviousReleasesOld))
                nextReleaseName == V(lastRelease.major, lastRelease.minor + 1,
                                     lastRelease.patch)
            IN  /\ F \subseteq {"rename"}
                /\ faults' = F
                /\ UNCHANGED <<hasReleases, snapshots, delta, deltaOld>>
                /\ IF "rename" \in F \/ nextReleaseName \in DOMAIN releases
                   THEN /\ gd' = NoLocals
                        /\ UNCHANGED <<releases, tmp>>
                        /\ Finish("prepareRelease", 1, "renameFailed",
                                  nextReleaseName)
                   ELSE /\ releases' = (nextReleaseName :> tmp.arts) @@ releases
                        /\ tmp' = NoTmp
                        /\ gd' = [NoLocals EXCEPT !.target = nextReleaseName]
                        /\ pc' = "prCompare"
                        /\ UNCHANGED last

\* lines 434-445: initGeneratedFiles of the first release; on an error the
\* whole ./releases folder is removed
PR_Init(F) ==
    /\ pc = "prInit"
    /\ UNCHANGED <<cli, build, parsing>>
    /\ F \subseteq {"populate", "rm"}
    /\ UNCHANGED <<pre, gd>>
    /\ LET r == initGeneratedFiles(EmptyDir, gd.target, releases[gd.target])
       IN  IF "populate" \in F \/ ~r.ok
           THEN /\ faults' = faults \cup F
                /\ IF "rm" \in F
                   THEN /\ delta' = IF "populate" \in F THEN EmptyDir
                                     ELSE r.dir
                        /\ UNCHANGED <<hasReleases, releases, snapshots, tmp,
                                       deltaOld>>
                   ELSE RemoveReleasesFolder(F)
                /\ Finish("prepareRelease", 1, "initFailed", gd.target)
           ELSE /\ F = {}
                /\ faults' = faults
                /\ delta' = r.dir
                /\ UNCHANGED <<hasReleases, releases, snapshots, tmp, deltaOld>>
                /\ Finish("prepareRelease", 0, "ok", gd.target)

\* lines 463-476: compareAndGenerate of the next release; on an error the
\* release folder that was just created is removed
PR_Compare(F) ==
    /\ pc = "prCompare"
    /\ UNCHANGED <<cli, build, parsing>>
    /\ F \subseteq {"populate", "rm"}
    /\ UNCHANGED <<pre, gd, hasReleases, snapshots, tmp, deltaOld>>
    /\ LET r == compareAndGenerateOld(delta, gd.target, releases[gd.target])
       IN  IF "populate" \in F \/ ~r.ok
           THEN /\ faults' = faults \cup F
                /\ releases' = IF "rm" \in F THEN releases
                               ELSE [x \in DOMAIN releases \ {gd.target}
                                       |-> releases[x]]
                /\ UNCHANGED delta
                /\ Finish("prepareRelease", 1, "compareFailed", gd.target)
           ELSE /\ F = {}
                /\ faults' = faults
                /\ delta' = r.dir
                /\ UNCHANGED releases
                /\ Finish("prepareRelease", 0, "ok", gd.target)

----------------------------------------------------------------------------
(* Specifications                                                          *)

\* the snapshot names in use
SnapshotNames == {Other(i) : i \in 1..MaxSnapshots}

\* the artifacts a snapshot is compiled to
SnapshotArtifactSets == {Arts(CounterAA, NoBlob, NoBlob)}

\* the version a changeset minor bump plans
NextMinor ==
    IF DOMAIN releases = {} THEN V(1, 0, 0)
    ELSE LET lastRelease == findLastRelease(SetToSeq(DOMAIN releases))
         IN  V(lastRelease.major, lastRelease.minor + 1, lastRelease.patch)

GD_Faults ==
    {"none", "rmOld", "renameToOld", "mkdir", "populate", "rmOldFinal",
     "rmNew", "renameBack"}

\* the steps of generate-delta.ts with the failures in G
GenerateDelta(G) ==
    \/ GD_Start
    \/ \E f \in G : GD_Backup(f)
    \/ \E f \in G : GD_Mkdir(f)
    \/ \E f \in G : GD_Init(f)
    \/ \E f \in G : GD_Compare(f)
    \/ \E f \in G : GD_Snapshot(f)
    \/ \E f \in G : GD_Finish(f)
    \/ \E f \in G : GD_Catch(f)
    \/ \E f \in G : GD_RollbackRename(f)

\* the process of the script has exited; the shell runs the next script
NextScript ==
    /\ pc = "done"
    /\ UNCHANGED <<cli, build, parsing>>
    /\ pc' = "idle"
    /\ gd' = NoLocals
    /\ pre' = StoreNow
    /\ faults' = {}
    /\ last' = NoScript
    /\ UNCHANGED store

\* Releases are committed one minor version after the other with any
\* artifacts, snapshots are added, and generate-delta.ts runs with any
\* failure of its filesystem calls.
Next ==
    \/ /\ Cardinality(DOMAIN releases) < MaxReleases
       /\ \E arts \in ArtifactSets : CR_Compile(arts, "none")
    \/ CR_Commit(Plan(1, NextMinor), {})
    \/ /\ Cardinality(DOMAIN snapshots) < MaxSnapshots
       /\ \E n \in SnapshotNames, arts \in SnapshotArtifactSets :
            CreateSnapshot(n, arts, "none")
    \/ GenerateDelta(GD_Faults)
    \/ NextScript

Spec == Init /\ [][Next]_vars

----------------------------------------------------------------------------
(* The commit of a release with any planned version and any failure        *)

\* the compilations a release is committed from
CommitArtifactSets ==
    {Arts(CounterAA, NoBlob, NoBlob), Arts(CounterBB, NoBlob, NoBlob)}

\* "v01.0.0": matches /^v\d+\.\d+\.\d+$/ and parses to 1, 0, 0
V01 == Name(TRUE, 1, 0, 0, 1)

\* the versions a release plan may ask for; Other(1) is not a semver string
DesiredNames == {V(1, 0, 0), V01, V(1, 1, 0), Other(1)}

\* the release plans: none planned, two planned, or one planned version
Plans ==
    {Plan(0, NoName), Plan(2, V(1, 0, 0))} \cup {Plan(1, v) : v \in DesiredNames}

\* Releases are committed by compile.ts or by prepare-release.ts with any
\* planned version and any failure of the rename and of the cleanup;
\* snapshots are added and generate-delta.ts runs without failures.
NextCommit ==
    \/ /\ Cardinality(DOMAIN releases) < MaxReleases
       /\ \E arts \in CommitArtifactSets, f \in {"none", "compile"} :
            CR_Compile(arts, f)
    \/ \E plan \in Plans, F \in SUBSET {"rename", "rm"} : CR_Commit(plan, F)
    \/ /\ Cardinality(DOMAIN releases) < MaxReleases
       /\ \E arts \in CommitArtifactSets : HardhatCompile(arts)
    \/ \E F \in SUBSET {"rename", "rm"} : PR_Start(F)
    \/ \E F \in SUBSET {"populate", "rm"} : PR_Init(F)
    \/ \E F \in SUBSET {"populate", "rm"} : PR_Compare(F)
    \/ /\ Cardinality(DOMAIN snapshots) < MaxSnapshots
       /\ \E n \in SnapshotNames, arts \in SnapshotArtifactSets,
             f \in {"none", "rename"} : CreateSnapshot(n, arts, f)
    \/ GenerateDelta({"none"})
    \/ NextScript

SpecCommit == Init /\ [][NextCommit]_vars

----------------------------------------------------------------------------
(* Properties of generate-delta.ts                                         *)

\* generate-delta.ts is between its first check and the exit of its process
GDRunning ==
    pc \in {"gdBackup", "gdMkdir", "gdInit", "gdLoop", "gdCatch",
            "gdRenamePending"}

\* the process of generate-delta.ts has exited
GDExited == pc = "done" /\ last.op = "generateDelta"

\* generate-delta.ts has exited with exit code 0
GDSucceeded == GDExited /\ last.exitCode = 0

\* the errors thrown inside the try block of generateDelta
PopulationErrors == {"io", "mkdirExists", "invalidStored", "emptyRelease"}

\* the semver-named entries stored for a contract: its version history
VersionEntries(dir, contract) ==
    {e \in StoredEntries(dir, contract) : IsSemver(e)}

\* a and b are neighbours in the version-ordered history of a contract
AdjacentEntries(dir, contract, a, b) ==
    /\ a \in VersionEntries(dir, contract)
    /\ b \in VersionEntries(dir, contract)
    /\ CompareSemver(a, b) < 0
    /\ ~\E e \in VersionEntries(dir, contract) :
          CompareSemver(a, e) < 0 /\ CompareSemver(e, b) < 0

\* generated-delta after every later release from position i on is compared
RECURSIVE CompareAll(_, _, _)
CompareAll(dir, ordered, i) ==
    IF i > Len(ordered) THEN dir
    ELSE CompareAll(compareAndGenerate(dir, ordered[i],
                                       releases[ordered[i]]).dir,
                    ordered, i + 1)

\* generated-delta after every snapshot from position j on is copied
RECURSIVE SnapshotAll(_, _, _)
SnapshotAll(dir, list, j) ==
    IF j > Len(list) THEN dir
    ELSE SnapshotAll(copySnapshotArtifacts(dir, list[j], snapshots[list[j]]),
                     list, j + 1)

\* the generated-delta a run without failure builds from the releases and
\* snapshots of the store
CompleteNewStore ==
    IF DOMAIN releases = {} THEN AbsentDir
    ELSE LET ordered == orderedReleasesOf(DOMAIN releases)
             first == initGeneratedFiles(EmptyDir, ordered[1],
                                         releases[ordered[1]]).dir
         IN  SnapshotAll(CompareAll(first, ordered, 2), SnapshotList, 1)

\* C1: when the population of the fresh generated-delta fails (in
\* initGeneratedFiles, in compareAndGenerate, by the empty release error or in
\* the copy of a snapshot) and the two calls of the catch block succeed, then
\* once generate-delta.ts has exited generated-delta is what it was when the
\* script started, and is absent if it was absent.
C1_RollbackRestoresDelta ==
    (GDExited /\ last.reason \in PopulationErrors /\ faults \subseteq {"populate"})
        => delta = pre.delta

\* a copy failed after the first release was stored, with an earlier
\* generated-delta in place, and that earlier folder is back
C1_FailedOverPreviousStore ==
    /\ GDExited
    /\ last.reason = "io"
    /\ faults = {"populate"}
    /\ gd.i >= 2
    /\ pre.delta.exists
    /\ pre.delta.c # {}
    /\ delta = pre.delta

\* C2: at every instant of a run of generate-delta.ts, and after it,
\* generated-delta is absent, or the folder the run started with, or the
\* complete folder a run builds from the releases and snapshots of the store.
C2_NeverPartiallyPopulated ==
    (GDRunning \/ GDExited)
        => delta \in {AbsentDir, pre.delta, CompleteNewStore}

\* C3: after a successful generate-delta.ts no two neighbours in the
\* version-ordered history of a contract have the same hashContract digest.
C3_NoAdjacentEquivalent ==
    GDSucceeded =>
        \A contract \in ContractNames :
            \A a, b \in StoredEntries(delta, contract) :
                AdjacentEntries(delta, contract, a, b) =>
                    hashContract(StoredBlob(delta, contract, a))
                        # hashContract(StoredBlob(delta, contract, b))

\* C4: after a successful generate-delta.ts, for every ordered release R and
\* every artifact key K with an artifact in R, the entry <K's contract>/<R>
\* exists exactly when R is the earliest release holding K or the artifact of
\* K in R has another hashContract digest than the latest stored entry of an
\* earlier version.
C4_EntryIffContentChange ==
    GDSucceeded =>
        \A R \in DOMAIN releases, K \in Keys :
            releases[R][K] # NoBlob =>
                LET earlier == {e \in VersionEntries(delta, K.name) :
                                   CompareSemver(e, R) < 0}
                    isEarliest == \A R2 \in DOMAIN releases :
                                     CompareSemver(R2, R) < 0
                                         => releases[R2][K] = NoBlob
                    differs ==
                        /\ earlier # {}
                        /\ hashContract(releases[R][K])
                             # hashContract(StoredBlob(delta, K.name,
                                   findLastRelease(SetToSeq(earlier))))
                IN  (R \in StoredEntries(delta, K.name))
                        <=> (isEarliest \/ differs)

\* the comparison of the release stores no artifact entry
ContributesNothing(dir, releaseName, arts) ==
    compareAndGenerate(dir, releaseName, arts).dir.c = dir.c

RECURSIVE ExaminedPairs(_, _, _, _)
ExaminedPairs(dir, releaseName, entries, i) ==
    IF i > Len(entries) THEN {}
    ELSE LET contract == entries[i].contractName
             previousReleases == StoredEntries(dir, contract)
         IN  IF previousReleases = {}
             THEN ExaminedPairs(copyArtifact(dir, contract, releaseName,
                                             entries[i].blob),
                                releaseName, entries, i + 1)
             ELSE IF \E r \in previousReleases : ~IsSemver(r) THEN {}
             ELSE LET lastRelease == findLastRelease(SetToSeq(previousReleases))
                      lastBlob == StoredBlob(dir, contract, lastRelease)
                      next == IF ArtifactChanged(lastBlob, entries[i].blob)
                              THEN copyArtifact(dir, contract, releaseName,
                                                entries[i].blob)
                              ELSE dir
                  IN  {<<lastBlob, entries[i].blob>>}
                        \cup ExaminedPairs(next, releaseName, entries, i + 1)

\* C10: on every pair that compareAndGenerate is about to examine, its change
\* test says "changed" exactly when the hashContract digests differ.
C10_ChangeTestIsHashInequality ==
    (pc = "gdLoop" /\ gd.i <= Len(gd.orderedReleases)) =>
        LET release == gd.orderedReleases[gd.i]
        IN  \A p \in ExaminedPairs(copyBuildInfo(delta, release, "release"),
                                   release,
                                   lookForContractArtifact(releases[release]),
                                   1) :
                ArtifactChanged(p[1], p[2])
                    <=> hashContract(p[1]) # hashContract(p[2])

----------------------------------------------------------------------------
(* Properties of the commit of a release                                   *)

\* a is strictly greater than b in (major, minor, patch) order
StrictlyGreater(a, b) == CompareSemver(a, b) > 0

\* C6: when compile.ts is asked for a well-formed version that is not
\* strictly greater than the highest release of the store, it ends with the
\* "not after the last release" validation error and no release folder is
\* added. (last.offender is the version that was asked for.)
C6_MonotonicCommit ==
    (/\ pc = "done"
     /\ last.op = "compileForRelease"
     /\ IsSemver(last.offender)
     /\ DOMAIN pre.releases # {}
     /\ ~StrictlyGreater(last.offender,
                         findLastRelease(SetToSeq(DOMAIN pre.releases))))
        => /\ last.reason = "notAfterLast"
           /\ DOMAIN releases = DOMAIN pre.releases

\* C7: every step of a commit attempt leaves the release folders alone or is
\* the one rename that adds the staged folder to the releases the attempt
\* started with; a release that became visible is never taken away again.
C7_SingleVisibilityTransition ==
    [][(\/ pc \in {"crCommit", "prInit", "prCompare"}
        \/ (pc = "idle" /\ pc' \in {"prInit", "prCompare"}))
         => (\/ releases' = releases
             \/ /\ releases = pre'.releases
                /\ \E v \in DOMAIN releases' \ DOMAIN releases :
                     releases' = (v :> tmp.arts) @@ releases)]_vars

\* C8: when the rename of releases/tmp fails in compile.ts and the cleanup
\* call succeeds, the staging folder is gone, the exit code is 1, and the
\* releases, the snapshots and generated-delta are what they were before.
C8_RenameFailureLeavesStore ==
    (/\ pc = "done"
     /\ last.op = "compileForRelease"
     /\ last.reason = "renameFailed"
     /\ "rm" \notin faults)
        => /\ ~tmp.exists
           /\ last.exitCode = 1
           /\ releases = pre.releases
           /\ snapshots = pre.snapshots
           /\ delta = pre.delta

\* the release folder a running prepare-release.ts has created and may still
\* give up
Uncommitted == IF pc \in {"prInit", "prCompare"} THEN {gd.target} ELSE {}

\* C9: no step of any script changes or deletes a committed release folder
\* or a committed snapshot folder.
C9_CommittedNeverChanges ==
    [][/\ \A v \in DOMAIN releases \ Uncommitted :
            v \in DOMAIN releases' /\ releases'[v] = releases[v]
       /\ \A n \in DOMAIN snapshots :
            n \in DOMAIN snapshots' /\ snapshots'[n] = snapshots[n]]_vars

----------------------------------------------------------------------------
(* Further properties of generate-delta.ts                                 *)

\* generate-delta.ts is past its backup step and has not exited
GDPastBackup ==
    pc \in {"gdMkdir", "gdInit", "gdLoop", "gdCatch", "gdRenamePending"}

\* C11: from the backup rename on, as long as generate-delta.ts runs, the
\* folder it started with is whole under generated-delta-old; that backup
\* disappears only by the removal on the success path or by being renamed
\* back to generated-delta.
C11_PreviousStoreKept ==
    /\ []((GDPastBackup /\ gd.hasGeneratedDeltaFolder)
            => (deltaOld = pre.delta /\ deltaOld.exists))
    /\ [][(GDRunning /\ deltaOld.exists /\ ~deltaOld'.exists)
            => (\/ (pc = "gdLoop" /\ pc' = "done" /\ last'.exitCode = 0)
                \/ (pc = "gdRenamePending" /\ delta' = deltaOld))]_vars

\* every release and the snapshot have been processed over an earlier
\* generated-delta, and that earlier folder is still there as the backup
C11_BackupHeldToTheEnd ==
    /\ pc = "gdLoop"
    /\ gd.i > Len(gd.orderedReleases)
    /\ gd.j > Len(SnapshotList)
    /\ Len(gd.orderedReleases) = 2
    /\ Len(SnapshotList) = 1
    /\ gd.hasGeneratedDeltaFolder
    /\ pre.delta.c # {}
    /\ deltaOld = pre.delta

\* C12: a run of generate-delta.ts that starts with a leftover
\* generated-delta-old (generated-delta absent, empty or partly filled) and in
\* which no filesystem call fails gets past its checks of the release names
\* and leaves no generated-delta-old behind.
C12_LeftoverBackupRecovered ==
    (GDExited /\ pre.deltaOld.exists /\ faults = {})
        => (last.reason # "invalidReleases" /\ ~deltaOld.exists)

\* C13: when generate-delta.ts fails in removing a leftover backup, in the
\* backup rename or in creating the fresh folder, generated-delta is, once
\* the script has exited, what it was when the script started.
C13_SetupFailureRestoresDelta ==
    (GDExited /\ last.reason \in {"removeOldFailed", "renameFailed", "mkdirFailed"})
        => delta = pre.delta

\* generateDelta() has returned: its exit code and error are set
GDReturned == last.op = "generateDelta"

\* C14: once generateDelta() has returned, none of its filesystem calls is
\* still in flight.
C14_NothingPendingAtReturn ==
    GDReturned => pc # "gdRenamePending"


\* ---------------------------------------------------------------------------
\* The command line tool (scripts/cli): push, pull, generate-typings
\* ---------------------------------------------------------------------------

\* the folders of `releases` that pull takes for local releases: every
\* directory but "generated", whatever it holds
LocalReleases == {r \in CliReleases : cli.local[r] # "absent"}

\* pull.ts: the releases the command decides to fetch
releasesToPull(release, force) ==
    IF release # NoName
        THEN IF release \in LocalReleases /\ ~force THEN {} ELSE {release}
        ELSE IF force THEN cli.remote ELSE cli.remote \ LocalReleases

\* pull.ts pullRelease: fetch from the storage, create the folder, write
\* build-info.json; how[r] names the call that fails for r
pullRelease(r, how) ==
    CASE how = "none" -> "complete"
      [] how = "fetch" -> cli.local[r]
      [] how = "mkdir" -> cli.local[r]
      [] OTHER -> "empty"

PullFaults == {"none", "fetch", "mkdir", "write"}

\* a batch in which one rejected pull rejects all of them
pullResultsAllOrNothing(toPull, how) ==
    [r \in toPull |->
        IF \E q \in toPull : how[q] # "none" THEN "rejected" ELSE "fulfilled"]

\* Promise.allSettled over the pulls: one status for each release to pull
pullResults(toPull, how) ==
    [r \in toPull |-> IF how[r] = "none" THEN "fulfilled" ELSE "rejected"]

\* two overloads of one function, emitted in either order
AbiOverloadXY == <<AbiItem(1, 1), AbiItem(1, 2)>>

AbiOverloadYX == <<AbiItem(1, 2), AbiItem(1, 1)>>

\* an ABI with a constructor: the entry has no name (modelled by name 0)
AbiConstructor == <<AbiItem(0, 1), AbiItem(1, 1)>>

\* the contracts diff-with-latest is run on
DiffContracts ==
    {CounterAA, CounterBB, CounterAAm2, LibAB, LibBA,
     Blob(AbiBA, "0xAA", "m1"),
     Blob(AbiOverloadXY, "0xAA", "m1"),
     Blob(AbiOverloadYX, "0xAA", "m1"),
     Blob(AbiAB, "0x", "m2"),
     Blob(AbiConstructor, "0xAA", "m1")}

\* the build infos diff-with-latest is run on
DiffBuildInfos ==
    {Arts(c, NoBlob, NoBlob) : c \in DiffContracts}
        \cup {Arts(CounterAA, LibAB, NoBlob)}

\* ContractInfo (zod object): every ABI entry must have a name
IsContractInfo(blob) == \A i \in DOMAIN blob.abi : blob.abi[i].name # 0

\* BuildInfo.safeParse succeeds
IsBuildInfo(buildInfo) ==
    \A k \in Keys : buildInfo[k] # NoBlob => IsContractInfo(buildInfo[k])

\* the parsed ContractInfo: the zod object keeps the declared keys only, so
\* an ABI entry is reduced to its name
ParseContractInfo(blob) ==
    [abi |-> [i \in DOMAIN blob.abi |-> [name |-> blob.abi[i].name]],
     bytecode |-> blob.bytecode,
     metadata |-> blob.metadata]

\* the keys of output.contracts
ContractKeys(buildInfo) == {k \in Keys : buildInfo[k] # NoBlob}

\* generateContractHashes: the map from contract key to hash
generateContractHashes(buildInfo) ==
    [k \in ContractKeys(buildInfo) |->
        hashContract(ParseContractInfo(buildInfo[k]))]

\* the keys of a map of hashes in the order they were inserted
RECURSIVE KeysFrom(_, _)
KeysFrom(hashes, i) ==
    IF i > Len(KeyOrder) THEN <<>>
    ELSE (IF KeyOrder[i] \in DOMAIN hashes THEN <<KeyOrder[i]>> ELSE <<>>)
            \o KeysFrom(hashes, i + 1)

\* the loop over the fresh hashes: a key without latest hash is added, a key
\* with another latest hash is changed
RECURSIVE AddedOrChanged(_, _, _, _)
AddedOrChanged(keys, i, virtualHashes, latestHashes) ==
    IF i > Len(keys) THEN <<>>
    ELSE (IF keys[i] \notin DOMAIN latestHashes THEN <<<<keys[i], "added">>>>
          ELSE IF latestHashes[keys[i]] # virtualHashes[keys[i]]
          THEN <<<<keys[i], "changed">>>>
          ELSE <<>>)
            \o AddedOrChanged(keys, i + 1, virtualHashes, latestHashes)

\* the loop over the latest hashes: a key without fresh hash is removed
RECURSIVE Removed(_, _, _)
Removed(keys, i, virtualHashes) ==
    IF i > Len(keys) THEN <<>>
    ELSE (IF keys[i] \notin DOMAIN virtualHashes
          THEN <<<<keys[i], "removed">>>> ELSE <<>>)
            \o Removed(keys, i + 1, virtualHashes)

\* a comparison that leaves out the keys of the latest release alone
generateDiffWithoutRemoved(fresh, latest) ==
    LET virtualHashes == generateContractHashes(fresh)
        latestHashes == generateContractHashes(latest)
    IN  IF latest = NoArtifacts
        THEN [i \in DOMAIN KeysFrom(virtualHashes, 1) |->
                <<KeysFrom(virtualHashes, 1)[i], "added">>]
        ELSE AddedOrChanged(KeysFrom(virtualHashes, 1), 1, virtualHashes,
                            latestHashes)

\* generateDiffWithLatest: the list of differences between the fresh
\* compilation and releases/latest (NoArtifacts: there is no latest release)
generateDiffWithLatest(fresh, latest) ==
    LET virtualHashes == generateContractHashes(fresh)
        latestHashes == generateContractHashes(latest)
    IN  IF latest = NoArtifacts
        THEN [i \in DOMAIN KeysFrom(virtualHashes, 1) |->
                <<KeysFrom(virtualHashes, 1)[i], "added">>]
        ELSE AddedOrChanged(KeysFrom(virtualHashes, 1), 1, virtualHashes,
                            latestHashes)
             \o Removed(KeysFrom(latestHashes, 1), 1, virtualHashes)

\* a comparison that clears the local releases on its way
CLI_DiffWithLatestClearing(fresh, latest, f) ==
    /\ pc = "idle"
    /\ UNCHANGED <<build, parsing>>
    /\ pre' = StoreNow
    /\ faults' = {f} \ {"none"}
    /\ UNCHANGED <<hasReleases, releases, snapshots, tmp, delta, deltaOld, gd>>
    /\ cli' = [cli EXCEPT !.local = NoCli.local]
    /\ IF f = "buildInfoPath"
         THEN Finish("diffWithLatest", 1, "buildInfoFailed", NoName)
         ELSE IF ~IsBuildInfo(fresh) \/ ~IsBuildInfo(latest)
         THEN Finish("diffWithLatest", 1, "invalidBuildInfo", NoName)
         ELSE FinishOutput("diffWithLatest", 0, "ok", NoName, TRUE,
                           [NoOutput EXCEPT
                              !.fresh = fresh, !.latest = latest,
                              !.differences =
                                  generateDiffWithLatest(fresh, latest)])

\* `diff-with-latest`: hash the contracts of the fresh build info and of the
\* latest release and print the differences
CLI_DiffWithLatest(fresh, latest, f) ==
    /\ pc = "idle"
    /\ UNCHANGED <<build, parsing>>
    /\ pre' = StoreNow
    /\ faults' = {f} \ {"none"}
    /\ UNCHANGED <<hasReleases, releases, snapshots, tmp, delta, deltaOld, gd,
                   cli>>
    /\ IF f = "buildInfoPath"
         THEN Finish("diffWithLatest", 1, "buildInfoFailed", NoName)
         ELSE IF ~IsBuildInfo(fresh) \/ ~IsBuildInfo(latest)
         THEN Finish("diffWithLatest", 1, "invalidBuildInfo", NoName)
         ELSE FinishOutput("diffWithLatest", 0, "ok", NoName, TRUE,
                           [NoOutput EXCEPT
                              !.fresh = fresh, !.latest = latest,
                              !.differences =
                                  generateDiffWithLatest(fresh, latest)])

\* S3BucketProvider.hasRelease: a failed request that is not NoSuchKey is
\* caught as well, and the method answers false
hasRelease(release, f) == f # "hasRelease" /\ release \in cli.remote

\* the result of a push: the option and whether the storage held the release
PushOutput(release, force) ==
    [NoOutput EXCEPT !.force = force, !.existed = release \in cli.remote]

\* `push <release>`: environment check, fresh build info, hasRelease, upload
CLI_Push(release, force, f) ==
    /\ pc = "idle"
    /\ UNCHANGED <<build, parsing>>
    /\ pre' = StoreNow
    /\ faults' = {f} \ {"none"}
    /\ UNCHANGED <<hasReleases, releases, snapshots, tmp, delta, deltaOld, gd>>
    /\ IF f = "env"
         THEN /\ Finish("push", 1, "invalidEnv", release)
              /\ UNCHANGED cli
         ELSE IF f = "buildInfo"
         THEN /\ FinishOutput("push", 1, "buildInfoFailed", release, FALSE,
                              PushOutput(release, force))
              /\ UNCHANGED cli
         ELSE IF hasRelease(release, f) /\ ~force
         THEN /\ FinishOutput("push", 1, "alreadyExists", release, FALSE,
                              PushOutput(release, force))
              /\ UNCHANGED cli
         ELSE IF f = "pushRelease"
         THEN /\ FinishOutput("push", 1, "pushFailed", release, FALSE,
                              PushOutput(release, force))
              /\ UNCHANGED cli
         ELSE /\ FinishOutput("push", 0, "ok", release, TRUE,
                              PushOutput(release, force))
              /\ cli' = [cli EXCEPT !.remote = @ \cup {release}]

\* `pull [--release r] [--force]`: the command reports the pulled and the
\* failed releases and leaves the exit status alone in both cases
CLI_Pull(release, force, f, how) ==
    /\ pc = "idle"
    /\ UNCHANGED <<build, parsing>>
    /\ pre' = StoreNow
    /\ UNCHANGED <<hasReleases, releases, snapshots, tmp, delta, deltaOld, gd>>
    /\ IF f = "env"
         THEN /\ Finish("pull", 1, "invalidEnv", release)
              /\ faults' = {f}
              /\ UNCHANGED cli
         ELSE IF f = "listReleases"
         THEN /\ Finish("pull", 1, "listFailed", release)
              /\ faults' = {f}
              /\ UNCHANGED cli
         ELSE IF cli.remote = {}
         THEN /\ FinishWith("pull", 0, "ok", release, TRUE)
              /\ faults' = {}
              /\ UNCHANGED cli
         ELSE IF release # NoName /\ release \notin cli.remote
         THEN /\ Finish("pull", 1, "releaseNotFound", release)
              /\ faults' = {}
              /\ UNCHANGED cli
         ELSE LET toPull == releasesToPull(release, force)
                  results == pullResults(toPull, how)
                  pulled == {r \in toPull : results[r] = "fulfilled"}
                  failed == {r \in toPull : results[r] # "fulfilled"}
              IN  /\ cli' = [cli EXCEPT !.local =
                        [r \in CliReleases |->
                            IF r \in toPull THEN pullRelease(r, how[r])
                                            ELSE cli.local[r]]]
                  /\ faults' = {how[r] : r \in failed}
                  /\ FinishOutput("pull", 0,
                                  IF failed = {} THEN "ok" ELSE "pullFailed",
                                  release,
                                  toPull = {} \/ pulled # {},
                                  [NoOutput EXCEPT
                                     !.releasesToPull = toPull,
                                     !.how = [r \in toPull |-> how[r]],
                                     !.pulledReleases = pulled,
                                     !.failedReleases = failed])

\* `generate-typings`: the error of generateReleasesSummary is caught and
\* reported, and the success message follows either way
CLI_GenerateTypings(f) ==
    /\ pc = "idle"
    /\ UNCHANGED <<build, parsing>>
    /\ pre' = StoreNow
    /\ faults' = {f} \ {"none"}
    /\ UNCHANGED <<hasReleases, releases, snapshots, tmp, delta, deltaOld, gd,
                   cli>>
    /\ IF f = "args"
         THEN Finish("generateTypings", 1, "invalidArguments", NoName)
         ELSE IF f = "summary"
         THEN FinishWith("generateTypings", 1, "summaryFailed", NoName, TRUE)
         ELSE Finish("generateTypings", 0, "ok", NoName)

NextCli ==
    \/ \E r \in CliReleases, force \in BOOLEAN,
          f \in {"none", "env", "buildInfo", "hasRelease", "pushRelease"} :
            CLI_Push(r, force, f)
    \/ \E r \in CliReleases \cup {NoName}, force \in BOOLEAN,
          f \in {"none", "env", "listReleases"},
          how \in [CliReleases -> PullFaults] :
            CLI_Pull(r, force, f, how)
    \/ \E f \in {"none", "args", "summary"} : CLI_GenerateTypings(f)
    \/ \E fresh \in DiffBuildInfos, latest \in DiffBuildInfos \cup {NoArtifacts},
          f \in {"none", "buildInfoPath"} :
            CLI_DiffWithLatest(fresh, latest, f)
    \/ NextScript

SpecCli == Init /\ [][NextCli]_vars

\* ---------------------------------------------------------------------------
\* Exit status of the top-level operations
\* ---------------------------------------------------------------------------

\* an operation has ended and its process has exited
Exited == pc = "done"

\* C15: every top-level operation ends with a failure exit status if and only
\* if it failed, and prints no success message after an error
C15_ExitStatusTellsFailure ==
    Exited =>
        /\ (last.exitCode # 0) <=> (last.reason # "ok")
        /\ (last.reason # "ok") => ~last.success

----------------------------------------------------------------------------
(* Properties of the content hash and of the change test                  *)

\* diff-with-latest has printed its differences
DiffDone == Exited /\ last.op = "diffWithLatest" /\ last.reason = "ok"

\* diff-with-latest has printed the key with the status
Reported(k, status) ==
    \E i \in DOMAIN last.output.differences :
        last.output.differences[i] = <<k, status>>

\* b holds the entries of a in some order
IsPermutation(a, b) ==
    /\ Len(a) = Len(b)
    /\ \E p \in [DOMAIN a -> DOMAIN a] :
          /\ \A i, j \in DOMAIN a : p[i] = p[j] => i = j
          /\ \A i \in DOMAIN a : b[i] = a[p[i]]

\* C16: two contracts that differ only by the order of their ABI entries have
\* the same hash, so diff-with-latest does not report the contract as changed.
C16_HashIgnoresAbiOrder ==
    DiffDone =>
        \A k \in ContractKeys(last.output.fresh)
                    \cap ContractKeys(last.output.latest) :
            LET fresh == last.output.fresh[k]
                latest == last.output.latest[k]
            IN  (/\ IsPermutation(latest.abi, fresh.abi)
                 /\ fresh.bytecode = latest.bytecode
                 /\ fresh.metadata = latest.metadata)
                    => /\ generateContractHashes(last.output.fresh)[k]
                            = generateContractHashes(last.output.latest)[k]
                       /\ ~Reported(k, "changed")

C16_PermutedAbiHashed ==
    /\ DiffDone
    /\ last.output.latest[KCounter].abi = AbiAB
    /\ last.output.fresh[KCounter].abi = AbiBA
    /\ last.output.fresh[KCounter].bytecode = last.output.latest[KCounter].bytecode
    /\ last.output.fresh[KCounter].metadata = last.output.latest[KCounter].metadata
    /\ last.output.differences = <<>>

\* the pairs (latest stored artifact, current artifact) that the comparison
\* of the release at hand is about to examine
PairsAtHand ==
    IF pc = "gdLoop" /\ gd.i <= Len(gd.orderedReleases)
    THEN ExaminedPairs(copyBuildInfo(delta, gd.orderedReleases[gd.i], "release"),
                       gd.orderedReleases[gd.i],
                       lookForContractArtifact(releases[gd.orderedReleases[gd.i]]),
                       1)
    ELSE {}

\* C17: two deployable artifacts that differ by the bytecode object alone or
\* by the metadata string alone have different hashes and are found changed by
\* the change test of compareAndGenerate.
C17_DeployableChangeDetected ==
    \A p \in PairsAtHand :
        (/\ p[1].bytecode # "0x"
         /\ p[2].bytecode # "0x"
         /\ p[1].abi = p[2].abi
         /\ \/ p[1].bytecode # p[2].bytecode /\ p[1].metadata = p[2].metadata
            \/ p[1].bytecode = p[2].bytecode /\ p[1].metadata # p[2].metadata)
            => /\ hashContract(p[1]) # hashContract(p[2])
               /\ ArtifactChanged(p[1], p[2])

\* C18: two non-deployable artifacts whose ABI entries are equal up to their
\* order have the same hash and are found unchanged by the change test of
\* compareAndGenerate, whatever their bytecode and metadata.
C18_NonDeployableComparedByAbi ==
    \A p \in PairsAtHand :
        (/\ p[1].bytecode = "0x"
         /\ p[2].bytecode = "0x"
         /\ IsPermutation(p[1].abi, p[2].abi))
            => /\ hashContract(p[1]) = hashContract(p[2])
               /\ ~ArtifactChanged(p[1], p[2])

----------------------------------------------------------------------------
(* Properties of the order of the comparison                               *)

\* a is before b in numeric (major, minor, patch) order
NumericallyBefore(a, b) ==
    \/ a.major < b.major
    \/ a.major = b.major /\ a.minor < b.minor
    \/ a.major = b.major /\ a.minor = b.minor /\ a.patch < b.patch

\* the comparisons the loop of compareAndGenerate makes from entry i on: the
\* key compared, the entries stored for it and the one findLastRelease picks
RECURSIVE Comparisons(_, _, _, _)
Comparisons(dir, releaseName, entries, i) ==
    IF i > Len(entries) THEN {}
    ELSE LET contract == entries[i].contractName
             previousReleases == StoredEntries(dir, contract)
         IN  IF previousReleases = {}
             THEN Comparisons(copyArtifact(dir, contract, releaseName,
                                           entries[i].blob),
                              releaseName, entries, i + 1)
             ELSE IF \E r \in previousReleases : ~IsSemver(r) THEN {}
             ELSE LET lastRelease == findLastRelease(SetToSeq(previousReleases))
                      lastBlob == StoredBlob(dir, contract, lastRelease)
                      next == IF ArtifactChanged(lastBlob, entries[i].blob)
                              THEN copyArtifact(dir, contract, releaseName,
                                                entries[i].blob)
                              ELSE dir
                  IN  {[key |-> entries[i].key,
                        previousReleases |-> previousReleases,
                        lastRelease |-> lastRelease]}
                        \cup Comparisons(next, releaseName, entries, i + 1)

\* C19: the releases are processed in strictly ascending numeric order, and
\* every comparison of a later release is made against the greatest of the
\* entries stored for the key, all of which are of releases before that one.
C19_ComparedAgainstLatestEarlier ==
    (pc = "gdLoop" /\ gd.i <= Len(gd.orderedReleases)) =>
        /\ \A i, j \in DOMAIN gd.orderedReleases :
              i < j => NumericallyBefore(gd.orderedReleases[i],
                                         gd.orderedReleases[j])
        /\ LET release == gd.orderedReleases[gd.i]
           IN  \A c \in Comparisons(copyBuildInfo(delta, release, "release"),
                                    release,
                                    lookForContractArtifact(releases[release]),
                                    1) :
                   /\ c.lastRelease \in c.previousReleases
                   /\ \A e \in c.previousReleases :
                         /\ e = c.lastRelease
                              \/ NumericallyBefore(e, c.lastRelease)
                         /\ NumericallyBefore(e, release)

----------------------------------------------------------------------------
(* Properties of artifacts introduced by a later release                   *)

\* the keys of the release at position i that no release before it holds
NewKeys(ordered, i) ==
    {k \in Keys : /\ releases[ordered[i]][k] # NoBlob
                  /\ \A j \in 1..(i - 1) : releases[ordered[j]][k] = NoBlob}

\* C20: when the comparison of a later release succeeds, every artifact of
\* the release whose key is in no earlier release is stored under the release,
\* and a release that holds such an artifact is not reported as empty.
C20_NewArtifactStored ==
    (pc = "gdLoop" /\ gd.i <= Len(gd.orderedReleases)) =>
        LET release == gd.orderedReleases[gd.i]
            r == compareAndGenerate(delta, release, releases[release])
        IN  r.ok =>
                /\ \A k \in NewKeys(gd.orderedReleases, gd.i) :
                      /\ release \in StoredEntries(r.dir, k.name)
                      /\ StoredBlob(r.dir, k.name, release)
                            = releases[release][k]
                /\ NewKeys(gd.orderedReleases, gd.i) # {} => ~r.empty

----------------------------------------------------------------------------
(* The store with snapshots of any content                                 *)

\* the compilations a release is committed from
StoreArtifactSets ==
    {Arts(CounterAA, NoBlob, NoBlob),
     Arts(CounterBB, NoBlob, NoBlob),
     Arts(CounterBB, NoBlob, CounterAA)}

\* the compilations a snapshot is made of: one contract, or two contracts of
\* one name under two paths
StoreSnapshotSets ==
    {Arts(CounterAA, NoBlob, NoBlob), Arts(CounterBB, NoBlob, CounterAA)}

\* Releases are committed in ascending order, snapshots are added under any
\* name, that of a release included, and generate-delta.ts runs with or
\* without a failing copy.
NextStore ==
    \/ /\ Cardinality(DOMAIN releases) < MaxReleases
       /\ \E arts \in StoreArtifactSets : CR_Compile(arts, "none")
    \/ CR_Commit(Plan(1, NextMinor), {})
    \/ /\ Cardinality(DOMAIN snapshots) < MaxSnapshots
       /\ \E n \in SnapshotNames \cup {V(1, 0, 0)}, arts \in StoreSnapshotSets :
            CreateSnapshot(n, arts, "none")
    \/ GenerateDelta({"none", "populate"})
    \/ NextScript

SpecStore == Init /\ [][NextStore]_vars

----------------------------------------------------------------------------
(* Properties of the snapshots in generated-delta                          *)

\* the loop over the snapshots is about to copy the snapshot at position j
SnapshotAtHand ==
    /\ pc = "gdLoop"
    /\ gd.i > Len(gd.orderedReleases)
    /\ gd.j <= Len(SnapshotList)

\* C21: when no copy fails, the step that copies a snapshot does not throw,
\* whatever the store holds, and after it every artifact of the snapshot is
\* stored under the snapshot's name.
C21_SnapshotCopiedWhole ==
    [][(SnapshotAtHand /\ faults' = faults)
        => LET snapshot == SnapshotList[gd.j]
           IN  /\ pc' = "gdLoop"
               /\ gd'.j = gd.j + 1
               /\ \A k \in Keys :
                     snapshots[snapshot][k] # NoBlob
                        => /\ snapshot \in StoredEntries(delta', k.name)
                           /\ StoredBlob(delta', k.name, snapshot)
                                 = snapshots[snapshot][k]]_vars

----------------------------------------------------------------------------
(* Properties of the enumeration of the releases                           *)

\* C22: a script ends with the invalid release names error only when a
\* folder of ./releases other than tmp, generated-delta, generated-delta-old
\* and snapshots has a name that is not a version.
C22_ReservedNamesNotReleases ==
    (Exited /\ last.reason = "invalidReleases") =>
        \E r \in DOMAIN pre.releases : ~IsSemver(r)

----------------------------------------------------------------------------
(* The release named by prepare-release.ts                                 *)

\* the versions releases are committed under before prepare-release.ts runs
PreparedNames == {V(1, 0, 0), V01, V(1, 1, 0), V(2, 0, 0)}

\* what the compilation leaves in releases/tmp: the artifacts of the
\* contracts, or no artifact when there is no contract to compile
StagingSets == CommitArtifactSets \cup {NoArtifacts}

\* Releases are committed under a planned version by compile.ts or under a
\* derived one by prepare-release.ts.
NextPrepare ==
    \/ /\ Cardinality(DOMAIN releases) < MaxPrepared
       /\ \E arts \in CommitArtifactSets : CR_Compile(arts, "none")
    \/ \E v \in PreparedNames : CR_Commit(Plan(1, v), {})
    \/ /\ Cardinality(DOMAIN releases) < MaxPrepared
       /\ \E arts \in StagingSets : HardhatCompile(arts)
    \/ \E F \in SUBSET {"rename"} : PR_Start(F)
    \/ PR_Init({})
    \/ PR_Compare({})
    \/ NextScript

SpecPrepare == Init /\ [][NextPrepare]_vars

\* prepare-release.ts has just renamed tmp to the release it names
Prepared == pc \in {"prInit", "prCompare"}

\* C23: the release that prepare-release.ts creates is v1.0.0 when there is no
\* release, and otherwise v<major>.<minor + 1>.<patch> of a numerically
\* highest release; its name is numerically after every release there was.
C23_NextNameDerived ==
    [][(pc = "idle" /\ Prepared')
        => LET name == gd'.target
           IN  /\ name \notin DOMAIN releases
               /\ releases' = (name :> tmp.arts) @@ releases
               /\ DOMAIN releases = {} => name = V(1, 0, 0)
               /\ DOMAIN releases # {} =>
                     \E h \in DOMAIN releases :
                        /\ \A r \in DOMAIN releases : ~NumericallyBefore(h, r)
                        /\ name = V(h.major, h.minor + 1, h.patch)
               /\ \A r \in DOMAIN releases : NumericallyBefore(r, name)]_vars

\* v1.1.0 and v2.0.0 were there and the release named is v2.1.0
C23_NamedAfterHighest ==
    /\ Prepared
    /\ DOMAIN pre.releases = {V(1, 1, 0), V(2, 0, 0)}
    /\ gd.target = V(2, 1, 0)
    /\ V(2, 1, 0) \in DOMAIN releases

----------------------------------------------------------------------------
(* The commit in a ./releases folder with a stray entry                    *)

\* a file or folder of ./releases that no script has made and whose name is
\* not a version
Stray == Other(2)

\* ./releases with the stray entry alone, and with releases beside it
StrayStores ==
    {(Stray :> NoArtifacts),
     (Stray :> NoArtifacts) @@ (V(1, 0, 0) :> Arts(CounterAA, NoBlob, NoBlob)),
     (Stray :> NoArtifacts) @@ (V(1, 0, 0) :> Arts(CounterAA, NoBlob, NoBlob))
        @@ (V(1, 1, 0) :> Arts(CounterBB, NoBlob, NoBlob))}

InitStray ==
    /\ hasReleases = TRUE
    /\ releases \in StrayStores
    /\ snapshots = EmptyFun
    /\ tmp = NoTmp
    /\ delta = AbsentDir
    /\ deltaOld = AbsentDir
    /\ pc = "idle"
    /\ gd = NoLocals
    /\ pre = [hasReleases |-> TRUE, releases |-> releases,
              snapshots |-> EmptyFun, tmp |-> NoTmp, delta |-> AbsentDir,
              deltaOld |-> AbsentDir, build |-> NoBuild.folders,
              good |-> AbsentDir]
    /\ faults = {}
    /\ last = NoScript
    /\ cli = NoCli
    /\ build = NoBuild
    /\ chunk = <<>>
    /\ contractTracker = NoTracker
    /\ ref = NoRef

\* compile.ts and prepare-release.ts with any plan and any failure
NextStray ==
    \/ \E arts \in CommitArtifactSets, f \in {"none", "compile"} :
            CR_Compile(arts, f)
    \/ \E plan \in Plans, F \in SUBSET {"rename", "rm"} : CR_Commit(plan, F)
    \/ \E arts \in CommitArtifactSets : HardhatCompile(arts)
    \/ \E F \in SUBSET {"rename", "rm"} : PR_Start(F)
    \/ NextScript

SpecStray == InitStray /\ [][NextStray]_vars

\* a commit script has exited
CommitExited ==
    Exited /\ last.op \in {"compileForRelease", "prepareRelease"}

\* C24: a commit started with an entry of ./releases whose name is not a
\* version fails and creates no release; when it gets as far as listing the
\* releases it fails with the invalid release names error.
C24_InvalidNameFailsCommit ==
    (CommitExited /\ \E r \in DOMAIN pre.releases : ~r.semver) =>
        /\ last.exitCode = 1
        /\ DOMAIN releases = DOMAIN pre.releases
        /\ last.reason \in {"invalidReleases", "compileFailed", "noStaging",
                            "releasePlan", "invalidVersion"}

\* compile.ts got a valid plan, found the stray entry beside v1.0.0 and left
C24_StrayEntryReported ==
    /\ CommitExited
    /\ last.op = "compileForRelease"
    /\ last.reason = "invalidReleases"
    /\ DOMAIN pre.releases = {Stray, V(1, 0, 0)}
    /\ releases = pre.releases
    /\ ~tmp.exists

----------------------------------------------------------------------------
(* Properties of the staging folder at the commit                          *)

\* C25: a step creates a release only when releases/tmp exists and holds at
\* least one artifact.
C25_EmptyStagingFailsCommit ==
    [][(\E name \in DOMAIN releases' : name \notin DOMAIN releases)
        => (tmp.exists /\ tmp.arts # NoArtifacts)]_vars

----------------------------------------------------------------------------
(* Properties of the regeneration of generated-delta                       *)

\* C26: after a successful generate-delta.ts generated-delta is the folder
\* built from the releases and snapshots alone, whatever generated-delta held
\* when the script started.
C26_StoreFromReleasesAlone ==
    GDSucceeded => delta = CompleteNewStore

\* the run succeeded over a previous generated-delta with another content
C26_RegeneratedOverOtherStore ==
    /\ GDSucceeded
    /\ pre.delta.exists
    /\ pre.delta.c # {}
    /\ pre.delta # delta
    /\ Cardinality(DOMAIN releases) = 2

----------------------------------------------------------------------------
(* Properties of the keys of the histories                                 *)

\* C27: no artifact of a release is compared against an entry that another
\* artifact of the same release has stored: the entries found for an artifact
\* are all of other releases.
C27_HistoriesKeyedByPathAndName ==
    (pc = "gdLoop" /\ gd.i <= Len(gd.orderedReleases)) =>
        LET release == gd.orderedReleases[gd.i]
        IN  \A c \in Comparisons(copyBuildInfo(delta, release, "release"),
                                 release,
                                 lookForContractArtifact(releases[release]),
                                 1) :
                release \notin c.previousReleases

----------------------------------------------------------------------------
(* Properties of diff-with-latest                                          *)

\* the keys of the fresh compilation and of the latest release
FreshKeys == ContractKeys(last.output.fresh)

LatestKeys == ContractKeys(last.output.latest)

\* C28: diff-with-latest reports a key as added exactly when it is in the
\* fresh compilation only, as changed exactly when it is in both with two
\* hashes, as removed exactly when it is in the latest release only, and it
\* reports no key twice.
C28_DifferencesExact ==
    DiffDone =>
        /\ \A k \in Keys :
              /\ Reported(k, "added") <=> k \in FreshKeys \ LatestKeys
              /\ Reported(k, "changed") <=>
                    /\ k \in FreshKeys \cap LatestKeys
                    /\ generateContractHashes(last.output.fresh)[k]
                          # generateContractHashes(last.output.latest)[k]
              /\ Reported(k, "removed") <=> k \in LatestKeys \ FreshKeys
        /\ \A i, j \in DOMAIN last.output.differences :
              last.output.differences[i][1] = last.output.differences[j][1]
                  => i = j

\* Counter has another bytecode and IncrementOracle is gone
C28_ChangedAndRemoved ==
    /\ DiffDone
    /\ last.output.differences
          = <<<<KCounter, "changed">>, <<KOracle, "removed">>>>

\* C29: a run of diff-with-latest, failed or not, leaves the staging folder,
\* the releases, the snapshots, the delta store and the pulled releases as
\* they were.
C29_DiffReadsOnly ==
    [][(pc = "idle" /\ pc' = "done" /\ last'.op = "diffWithLatest")
          => UNCHANGED <<hasReleases, releases, snapshots, tmp, delta,
                         deltaOld, cli>>]_vars

\* a failed comparison next to pulled releases
C29_FailedDiffNextToReleases ==
    /\ Exited
    /\ last.op = "diffWithLatest"
    /\ last.reason = "invalidBuildInfo"
    /\ last.exitCode = 1
    /\ LocalReleases # {}

----------------------------------------------------------------------------
(* generate-delta.ts over releases with malformed artifacts                *)

\* the artifact lacks its JSON file or its bytecode
Malformed(blob) == blob = NoJson \/ blob.bytecode = Undefined

\* the content of the releases: well-formed and malformed artifacts
MalformedArtifactSets ==
    {Arts(CounterAA, NoBlob, NoBlob),
     Arts(NoJson, NoBlob, NoBlob),
     Arts(NoBytecodeAB, NoBlob, NoBlob),
     Arts(NoBytecodeB, NoBlob, NoBlob),
     Arts(CounterAA, NoJson, NoBlob)}

\* the releases folder: v1.0.0 and v1.1.0 with any of these contents
MalformedStores ==
    {(V(1, 0, 0) :> a) @@ (V(1, 1, 0) :> b) :
        a \in MalformedArtifactSets, b \in MalformedArtifactSets}

InitMalformed ==
    /\ hasReleases = TRUE
    /\ releases \in MalformedStores
    /\ snapshots = EmptyFun
    /\ tmp = NoTmp
    /\ delta = AbsentDir
    /\ deltaOld = AbsentDir
    /\ pc = "idle"
    /\ gd = NoLocals
    /\ pre = [hasReleases |-> TRUE, releases |-> releases,
              snapshots |-> EmptyFun, tmp |-> NoTmp, delta |-> AbsentDir,
              deltaOld |-> AbsentDir, build |-> NoBuild.folders,
              good |-> AbsentDir]
    /\ faults = {}
    /\ last = NoScript
    /\ cli = NoCli
    /\ build = NoBuild
    /\ chunk = <<>>
    /\ contractTracker = NoTracker
    /\ ref = NoRef

\* snapshots are added and generate-delta.ts runs with or without a failing
\* copy
NextMalformed ==
    \/ /\ Cardinality(DOMAIN snapshots) < MaxSnapshots
       /\ \E n \in SnapshotNames, arts \in SnapshotArtifactSets :
            CreateSnapshot(n, arts, "none")
    \/ GenerateDelta({"none", "populate"})
    \/ NextScript

SpecMalformed == InitMalformed /\ [][NextMalformed]_vars

\* C30: generate-delta.ts fails whenever a release it reads holds a
\* malformed artifact: one without its JSON file or without its bytecode.
C30_MalformedArtifactFails ==
    (GDExited /\ \E r \in DOMAIN pre.releases, k \in Keys :
                    Malformed(pre.releases[r][k]))
        => last.exitCode = 1

----------------------------------------------------------------------------
(* Properties of pull and push                                             *)

\* pull has returned from the pulls of the releases it selected
PullReturned ==
    Exited /\ last.op = "pull" /\ last.reason \in {"ok", "pullFailed"}

\* C31: at the return of pull every selected release is either in
\* pulledReleases, and then its three steps succeeded and its build info is
\* written, or in failedReleases, and then one of its steps failed; a failed
\* pull keeps no other pull from completing.
C31_PullsSettleIndependently ==
    PullReturned =>
        LET out == last.output
        IN  /\ out.pulledReleases \cup out.failedReleases = out.releasesToPull
            /\ out.pulledReleases \cap out.failedReleases = {}
            /\ \A r \in out.releasesToPull :
                  /\ r \in out.pulledReleases <=> out.how[r] = "none"
                  /\ out.how[r] = "none" => cli.local[r] = "complete"

\* two releases selected, one pulled and one failed
C31_OnePulledOneFailed ==
    /\ PullReturned
    /\ Cardinality(last.output.releasesToPull) = 2
    /\ Cardinality(last.output.pulledReleases) = 1
    /\ Cardinality(last.output.failedReleases) = 1
    /\ \A r \in last.output.pulledReleases : cli.local[r] = "complete"

----------------------------------------------------------------------------
(* The distribution build: build.ts (dist) and build-exposed-abis.ts (abis) *)

\* the build stops before the bundling with exit code 1
BuildStops(reason, folders, f) ==
    /\ build' = [build EXCEPT !.folders = folders]
    /\ faults' = {f} \ {"none"}
    /\ Finish("build", 1, reason, NoName)

\* the checks, the fill of the -tmp folder and the backup of the current
\* folder as -old
B_Start(t, bundle, f) ==
    /\ pc = "idle"
    /\ pre' = StoreNow
    /\ gd' = NoLocals
    /\ UNCHANGED <<store, cli, parsing>>
    /\ LET cur == build.folders[t]
           with(r) == [build.folders EXCEPT ![t] = r]
       IN  IF ~hasReleases
           THEN f = "none" /\ BuildStops("noReleasesFolder", build.folders, f)
           ELSE IF t = "dist" /\ ~delta.exists
           THEN f = "none" /\ BuildStops("noGeneratedDelta", build.folders, f)
           ELSE IF cur.tmp /\ f = "rmTmp"
           THEN BuildStops("removeTmpFailed", build.folders, f)
           ELSE IF f = "mkdirTmp"
           THEN BuildStops("mkdirTmpFailed",
                           with([cur EXCEPT !.tmp = FALSE]), f)
           ELSE IF f = "fill"
           THEN BuildStops("fillFailed", with([cur EXCEPT !.tmp = FALSE]), f)
           ELSE IF cur.dir # "absent" /\ cur.old # "absent" /\ f = "rmOld"
           THEN BuildStops("removeOldFailed",
                           with([cur EXCEPT !.tmp = TRUE]), f)
           ELSE IF cur.dir # "absent" /\ f = "renameToOld"
           THEN BuildStops("renameFailed",
                           with([cur EXCEPT !.tmp = TRUE, !.old = "absent"]), f)
           ELSE /\ f = "none"
                /\ faults' = {}
                /\ pc' = "bBundle"
                /\ UNCHANGED last
                /\ build' =
                     [folders |->
                        with(IF cur.dir # "absent"
                             THEN [dir |-> "absent", old |-> cur.dir,
                                   tmp |-> TRUE]
                             ELSE [cur EXCEPT !.tmp = TRUE]),
                      target |-> t, hasFolder |-> cur.dir # "absent",
                      bundle |-> bundle]

\* tsupBuild and, when it succeeds, the removal of the -tmp and -old folders;
\* a failed bundling leaves no folder or a partial one
B_Bundle(f, F) ==
    /\ pc = "bBundle"
    /\ f \in {"none", "bundle", "bundlePartial"}
    /\ F \subseteq {"rmTmp", "rmOld"}
    /\ UNCHANGED <<store, cli, gd, pre, parsing>>
    /\ LET t == build.target
           cur == build.folders[t]
       IN  IF f = "none"
           THEN /\ F \subseteq (IF build.hasFolder THEN {"rmTmp", "rmOld"}
                                                  ELSE {"rmTmp"})
                /\ faults' = F
                /\ build' = [build EXCEPT !.folders[t] =
                      [dir |-> build.bundle,
                       old |-> IF build.hasFolder /\ "rmOld" \notin F
                               THEN "absent" ELSE cur.old,
                       tmp |-> "rmTmp" \in F]]
                /\ Finish("build", 0, "ok", NoName)
           ELSE /\ F = {}
                /\ faults' = {"bundle"}
                /\ build' = [build EXCEPT !.folders[t].dir =
                                IF f = "bundle" THEN "absent" ELSE "partial"]
                /\ pc' = "bCatch"
                /\ UNCHANGED last

\* the catch block: remove the -tmp folder and the new folder, rename the
\* -old folder back (the rename fails over a folder that is still there);
\* each failure is a warning. The step ends when the process exits, after
\* the rename, which is not awaited, has settled.
B_Catch(F) ==
    /\ pc = "bCatch"
    /\ F \subseteq {"rmTmp", "rmNew", "renameBack"}
    /\ UNCHANGED <<store, cli, gd, pre, parsing>>
    /\ LET t == build.target
           cur == build.folders[t]
           dir == IF "rmNew" \in F THEN cur.dir ELSE "absent"
           renamed == /\ cur.old # "absent"
                      /\ "renameBack" \notin F
                      /\ dir = "absent"
       IN  /\ "rmNew" \in F => cur.dir # "absent"
           /\ "renameBack" \in F => cur.old # "absent"
           /\ faults' = faults \cup F
           /\ build' = [build EXCEPT !.folders[t] =
                 [dir |-> IF renamed THEN cur.old ELSE dir,
                  old |-> IF renamed THEN "absent" ELSE cur.old,
                  tmp |-> "rmTmp" \in F]]
           /\ Finish("build", 1, "bundleFailed", NoName)

\* the releases folder with one release and its generated-delta
InitBuild ==
    /\ hasReleases = TRUE
    /\ releases = (V(1, 0, 0) :> Arts(CounterAA, NoBlob, NoBlob))
    /\ snapshots = EmptyFun
    /\ tmp = NoTmp
    /\ delta = initGeneratedFiles(EmptyDir, V(1, 0, 0), releases[V(1, 0, 0)]).dir
    /\ deltaOld = AbsentDir
    /\ pc = "idle"
    /\ gd = NoLocals
    /\ pre = [hasReleases |-> TRUE, releases |-> releases,
              snapshots |-> EmptyFun, tmp |-> NoTmp, delta |-> delta,
              deltaOld |-> AbsentDir, build |-> NoBuild.folders,
              good |-> AbsentDir]
    /\ faults = {}
    /\ last = NoScript
    /\ cli = NoCli
    /\ build = NoBuild
    /\ chunk = <<>>
    /\ contractTracker = NoTracker
    /\ ref = NoRef

\* the two builds run again and again, with any failure
NextBuild ==
    \/ \E t \in Targets, bundle \in {"A", "B"},
          f \in {"none", "rmTmp", "mkdirTmp", "fill", "rmOld", "renameToOld"} :
            B_Start(t, bundle, f)
    \/ \E f \in {"none", "bundle", "bundlePartial"},
          F \in SUBSET {"rmTmp", "rmOld"} : B_Bundle(f, F)
    \/ \E F \in SUBSET {"rmTmp", "rmNew", "renameBack"} : B_Catch(F)
    \/ NextScript

SpecBuild == InitBuild /\ [][NextBuild]_vars

\* the bundling of a build has failed and its process has exited
BundleFailed == Exited /\ last.op = "build" /\ last.reason = "bundleFailed"

\* C32: when the bundling fails and the calls of the catch block succeed,
\* then once the build has exited the distribution folder is what it was
\* when the build started.
C32_FailedBundleRestoresFolder ==
    (BundleFailed /\ faults \subseteq {"bundle"})
        => build.folders[build.target].dir = pre.build[build.target].dir

----------------------------------------------------------------------------
(* Properties of push                                                      *)

\* C33: a push without --force of a release the storage holds already ends
\* with an error before the upload is called.
C33_NoOverwriteWithoutForce ==
    (Exited /\ last.op = "push" /\ last.output.existed /\ ~last.output.force)
        => /\ last.exitCode = 1
           /\ last.reason \notin {"ok", "pushFailed"}

----------------------------------------------------------------------------
(* Same-name contracts, the backup and the snapshots in generate-delta.ts   *)

\* the release holds two contracts of one name under two source paths
HasSameNameContracts(arts) ==
    \E k, l \in Keys :
        k # l /\ k.name = l.name /\ arts[k] # NoBlob /\ arts[l] # NoBlob

\* C34: generate-delta.ts fails whenever one of the releases holds two
\* contracts of one name under two source paths.
C34_SameNameContractsFail ==
    (GDExited /\ \E r \in DOMAIN pre.releases :
                    HasSameNameContracts(pre.releases[r]))
        => last.exitCode = 1

\* the process of generate-delta.ts is killed between two of its steps
GD_Crash ==
    /\ GDRunning
    /\ UNCHANGED <<store, cli, build, gd, pre, parsing>>
    /\ faults' = faults \cup {"crash"}
    /\ FinishWith("generateDelta", 137, "crashed", NoName, FALSE)

\* Releases are committed in ascending order, snapshots are added, and
\* generate-delta.ts runs with any failure and may be killed at any step.
NextCrash ==
    \/ /\ Cardinality(DOMAIN releases) < MaxReleases
       /\ \E arts \in StoreArtifactSets : CR_Compile(arts, "none")
    \/ CR_Commit(Plan(1, NextMinor), {})
    \/ /\ Cardinality(DOMAIN snapshots) < MaxSnapshots
       /\ \E n \in SnapshotNames, arts \in SnapshotArtifactSets :
            CreateSnapshot(n, arts, "none")
    \/ GenerateDelta(GD_Faults)
    \/ GD_Crash
    \/ NextScript

SpecCrash == Init /\ [][NextCrash]_vars

\* C35: once a run of generate-delta.ts has completed a store, a whole copy
\* of the last completed store is at every instant under generated-delta or
\* under generated-delta-old, and the store a failing run renames back to
\* generated-delta is that completed store.
C35_LastStoreSurvives ==
    /\ [](pre.good.exists => (delta = pre.good \/ deltaOld = pre.good))
    /\ [][(pre.good.exists /\ pc = "gdRenamePending" /\ delta' # delta)
            => delta' = pre.good]_vars

\* a run was killed while it filled the new folder, the next run has failed,
\* and the last completed store is still there as the backup
C35_CrashThenFailedRun ==
    /\ GDExited
    /\ last.exitCode = 1
    /\ pre.good.exists
    /\ pre.good.c # {}
    /\ pre.delta.exists
    /\ pre.delta # pre.good
    /\ pre.deltaOld = pre.good
    /\ deltaOld = pre.good

\* C36: the copy of a snapshot into generated-delta leaves every contract
\* entry and every build info stored under the name of a release as it was.
C36_SnapshotsLeaveReleaseEntries ==
    [][(SnapshotAtHand /\ faults' = faults)
          => \A r \in DOMAIN releases :
                /\ {f \in delta'.c : f.entry = r} = {f \in delta.c : f.entry = r}
                /\ {f \in delta'.bi : f.entry = r}
                      = {f \in delta.bi : f.entry = r}]_vars

\* C37: every release that pull takes for a local release has its
\* build-info.json completely written, so a release whose pull failed is
\* selected again by the next pull without --force.
C37_FailedPullNotVisible ==
    \A r \in LocalReleases : cli.local[r] = "complete"

----------------------------------------------------------------------------
(* create-snapshot-release.ts with the scripts it runs                      *)

\* createSnapshotRelease from its first to its last line. f is the step that
\* fails: the compilation, the rename of tmp, one of the three scripts run by
\* execSync (their error is thrown outside the try block and ends the
\* process), or the changeset release. F holds the removals that fail in the
\* cleanup, which only warns.
CreateSnapshotRelease(snapshotName, arts, f, F) ==
    /\ pc = "idle"
    /\ pre' = StoreNow
    /\ gd' = NoLocals
    /\ UNCHANGED <<releases, deltaOld, cli, parsing>>
    /\ F \subseteq {"rmTmp", "rmSnapshot"}
    /\ LET created == (snapshotName :> arts) @@ snapshots
           generated == copySnapshotArtifacts(CompleteNewStore, snapshotName,
                                              arts)
           built == [build EXCEPT !.folders["dist"].dir = "A"]
           ends(reason) ==
               /\ faults' = {f} \cup F
               /\ Finish("createSnapshotRelease", 1, reason, snapshotName)
       IN  IF snapshotName \in DOMAIN snapshots
           THEN /\ f = "none" /\ F = {}
                /\ faults' = {}
                /\ UNCHANGED <<hasReleases, snapshots, tmp, delta, build>>
                /\ Finish("createSnapshotRelease", 1, "snapshotExists",
                          snapshotName)
           ELSE IF f \in {"compile", "rename"}
           THEN /\ "rmSnapshot" \notin F
                /\ hasReleases' = TRUE
                /\ tmp' = IF "rmTmp" \in F
                          THEN [exists |-> TRUE, arts |-> arts] ELSE NoTmp
                /\ UNCHANGED <<snapshots, delta, build>>
                /\ ends(IF f = "compile" THEN "compileFailed" ELSE "copyFailed")
           ELSE IF f \in {"generateDelta", "build", "copyDist"}
           THEN /\ F = {}
                /\ hasReleases' = TRUE
                /\ tmp' = NoTmp
                /\ snapshots' = created
                /\ delta' = IF f = "generateDelta" THEN delta ELSE generated
                /\ build' = IF f = "copyDist" THEN built ELSE build
                /\ ends(f)
           ELSE IF f = "changeset"
           THEN /\ "rmTmp" \notin F
                /\ hasReleases' = TRUE
                /\ tmp' = NoTmp
                /\ snapshots' = IF "rmSnapshot" \in F THEN created
                                                     ELSE snapshots
                /\ delta' = generated
                /\ build' = built
                /\ ends("changesetFailed")
           ELSE /\ f = "none" /\ F = {}
                /\ faults' = {}
                /\ hasReleases' = TRUE
                /\ tmp' = NoTmp
                /\ snapshots' = created
                /\ delta' = generated
                /\ build' = built
                /\ Finish("createSnapshotRelease", 0, "ok", snapshotName)

\* snapshots are created over one release, under any name, with any failure
NextSnapshot ==
    \/ \E n \in SnapshotNames \cup {Stray, V(1, 0, 0)},
          arts \in StoreSnapshotSets,
          f \in {"none", "compile", "rename", "generateDelta", "build",
                 "copyDist", "changeset"},
          F \in SUBSET {"rmTmp", "rmSnapshot"} :
            CreateSnapshotRelease(n, arts, f, F)
    \/ NextScript

SpecSnapshot == InitBuild /\ [][NextSnapshot]_vars

\* C38: when a step of createSnapshotRelease after the name check fails and
\* the removals of the cleanup succeed, then once the script has exited
\* neither releases/snapshots/<name> nor releases/tmp exists.
C38_FailedSnapshotRemoved ==
    (/\ Exited
     /\ last.op = "createSnapshotRelease"
     /\ last.exitCode # 0
     /\ last.reason # "snapshotExists"
     /\ faults \cap {"rmTmp", "rmSnapshot"} = {})
        => (last.offender \notin DOMAIN snapshots /\ ~tmp.exists)

----------------------------------------------------------------------------
(* MoreInvolvedTracker: the JSON reader of the build info                   *)

Output == <<"o", "u", "t", "p", "u", "t">>
Contracts == <<"c", "o", "n", "t", "r", "a", "c", "t", "s">>

\* !isNaN(Number(char)) for one character that is neither " " nor "\n"
IsNumber(char) == char \in {"0", "1", "2", "3", "4", "5", "6", "7", "8", "9"}

\* if (this.state.recordingKey): undefined and "" are both falsy
Truthy(recordingKey) == recordingKey.defined /\ recordingKey.key # <<>>

\* state.index === null ? 0 : state.index
IndexOrZero(state) == IF state.index = Null THEN 0 ELSE state.index

\* this.state.currentLevel = level
SetLevel(t, level) == [t EXCEPT !.currentLevel = level]

\* throw new Error(...)
Throw(t) == [t EXCEPT !.thrown = TRUE]

\* this.state.levels.push(parentLevel) with the new current level
PushLevel(t, parentLevel, level) ==
    [t EXCEPT !.levels = Append(@, parentLevel), !.currentLevel = level]

\* const parentLevel = this.state.levels.pop(); if (parentLevel) {...}: the
\* current level becomes the parent's, waiting for the end of its value; with
\* no parent the current level is left as it is
PopLevel(t) ==
    IF t.levels = <<>>
    THEN t
    ELSE LET parentLevel == t.levels[Len(t.levels)]
         IN  [t EXCEPT
                !.levels = SubSeq(@, 1, Len(@) - 1),
                !.currentLevel =
                    IF parentLevel.type = "object"
                    THEN Level("object", "expecting-end-of-value",
                               parentLevel.key, Null, FALSE)
                    ELSE Level("array", "expecting-end-of-item", <<>>,
                               parentLevel.index, FALSE)]

\* levels.map(...).join("@CUSTOM@") === "output@CUSTOM@contracts", for keys
\* and indexes that hold no "@": two levels, the keys output and contracts
AtContracts(levels) ==
    /\ Len(levels) = 2
    /\ levels[1].type = "object" /\ levels[1].key = Output
    /\ levels[2].type = "object" /\ levels[2].key = Contracts

\* case "}": the pop, then the end of the recording when the path is back at
\* output.contracts
CloseObject(t) ==
    LET popped == PopLevel(t)
    IN  IF Truthy(popped.recordingKey) /\ AtContracts(popped.levels)
        THEN [popped EXCEPT !.recordingKey = NoKey]
        ELSE popped

\* the status dealing-with-string of both kinds of level, and building-key
\* with key += char
InString(t, state, char, closed, isKey) ==
    LET kept == IF isKey THEN Append(state.key, char) ELSE state.key
    IN  IF char = "\\"
        THEN SetLevel(t, [state EXCEPT !.isNextCharEscaped = TRUE,
                                       !.key = kept])
        ELSE IF char = "\"" /\ ~state.isNextCharEscaped
        THEN SetLevel(t, closed)
        ELSE SetLevel(t, [state EXCEPT !.isNextCharEscaped = FALSE,
                                       !.key = kept])

onCharWithArrayState(t, state, char) ==
    LET first == IndexOrZero(state)
        next == Level("array", "identifying-value-type", <<>>,
                      state.index + 1, FALSE)
    IN  CASE state.status = "identifying-value-type" ->
               (CASE char \in {"\n", " "} -> t
                  [] char = "\"" ->
                       SetLevel(t, Level("array", "dealing-with-string", <<>>,
                                         first, FALSE))
                  [] char = "{" ->
                       PushLevel(t, ParentLevel("array", <<>>, first),
                                 Level("object",
                                       "expecting-key-or-end-of-object",
                                       <<>>, Null, FALSE))
                  [] char = "[" ->
                       PushLevel(t, ParentLevel("array", <<>>, first),
                                 Level("array", "identifying-value-type",
                                       <<>>, Null, FALSE))
                  [] char = "]" -> PopLevel(t)
                  [] char \in {"t", "f"} ->
                       SetLevel(t, Level("array",
                                   "dealing-with-boolean-or-expecting-comma",
                                   <<>>, first, FALSE))
                  [] char = "n" ->
                       SetLevel(t, Level("array",
                                   "dealing-with-null-or-expecting-comma",
                                   <<>>, first, FALSE))
                  [] char = "-" \/ IsNumber(char) ->
                       SetLevel(t, Level("array",
                                   "dealing-with-number-or-expecting-comma",
                                   <<>>, first, FALSE))
                  [] OTHER -> Throw(t))
          [] state.status \in {"dealing-with-number-or-expecting-comma",
                               "dealing-with-boolean-or-expecting-comma",
                               "dealing-with-null-or-expecting-comma"} ->
               (CASE char = "," -> SetLevel(t, next)
                  [] char = "]" -> PopLevel(t)
                  [] OTHER -> t)
          [] state.status = "dealing-with-string" ->
               InString(t, state, char,
                        Level("array", "expecting-end-of-item", <<>>,
                              state.index, FALSE), FALSE)
          [] state.status = "expecting-end-of-item" ->
               (CASE char = "," -> SetLevel(t, next)
                  [] char = "]" -> PopLevel(t)
                  [] char \in {"\n", " "} -> t
                  [] OTHER -> Throw(t))
          [] OTHER -> Throw(t)

onCharWithObjectState(t, state, char) ==
    LET nextKey == Level("object", "expecting-key-or-end-of-object", <<>>,
                         Null, FALSE)
        value(status) == Level("object", status, state.key, Null, FALSE)
    IN  CASE state.status = "identifying-value-type" ->
               (CASE char \in {"\n", " "} -> t
                  [] char = "\"" -> SetLevel(t, value("dealing-with-string"))
                  [] char = "{" ->
                       LET recording ==
                             IF ~Truthy(t.recordingKey) /\ AtContracts(t.levels)
                             THEN [t EXCEPT
                                     !.recordingKey =
                                         [defined |-> TRUE, key |-> state.key],
                                     !.contracts =
                                         (state.key :> <<"{">>) @@ @]
                             ELSE t
                       IN  PushLevel(recording,
                                     ParentLevel("object", state.key, Null),
                                     nextKey)
                  [] char = "[" ->
                       PushLevel(t, ParentLevel("object", state.key, Null),
                                 Level("array", "identifying-value-type",
                                       <<>>, Null, FALSE))
                  [] char \in {"t", "f"} ->
                       SetLevel(t, value(
                           "dealing-with-boolean-or-expecting-end-of-value"))
                  [] char = "n" ->
                       SetLevel(t, value(
                           "dealing-with-null-or-expecting-end-of-value"))
                  [] char = "-" \/ IsNumber(char) ->
                       SetLevel(t, value(
                           "dealing-with-number-or-expecting-end-of-value"))
                  [] OTHER -> Throw(t))
          [] state.status = "expecting-key-or-end-of-object" ->
               (CASE char = "\"" ->
                       SetLevel(t, Level("object", "building-key", <<>>, Null,
                                         FALSE))
                  [] char = "}" -> CloseObject(t)
                  [] char \in {"\n", " "} -> t
                  [] OTHER -> Throw(t))
          [] state.status = "building-key" ->
               InString(t, state, char,
                        value("expecting-transition-to-value"), TRUE)
          [] state.status = "expecting-transition-to-value" ->
               IF char = ":" THEN SetLevel(t, value("identifying-value-type"))
                             ELSE Throw(t)
          [] state.status = "dealing-with-string" ->
               InString(t, state, char, value("expecting-end-of-value"),
                        FALSE)
          [] state.status \in
                 {"dealing-with-number-or-expecting-end-of-value",
                  "dealing-with-boolean-or-expecting-end-of-value",
                  "dealing-with-null-or-expecting-end-of-value"} ->
               (CASE char = "," -> SetLevel(t, nextKey)
                  [] char = "}" -> CloseObject(t)
                  [] OTHER -> t)
          [] state.status = "expecting-end-of-value" ->
               (CASE char = "," -> SetLevel(t, nextKey)
                  [] char = "}" -> CloseObject(t)
                  [] char \in {"\n", " "} -> t
                  [] OTHER -> Throw(t))
          [] OTHER -> Throw(t)

\* onChar: the root, then the recording of the character, then the handler of
\* the current level
onChar(t, char) ==
    LET state == t.currentLevel
        recorded ==
            IF Truthy(t.recordingKey)
            THEN [t EXCEPT !.contracts[t.recordingKey.key] = Append(@, char)]
            ELSE t
    IN  IF state = NoLevel
        THEN IF char = "{"
             THEN SetLevel(t, Level("object", "expecting-key-or-end-of-object",
                                    <<>>, Null, FALSE))
             ELSE IF char \in {" ", "\n"} THEN t ELSE Throw(t)
        ELSE IF state.type = "object"
             THEN onCharWithObjectState(recorded, state, char)
             ELSE onCharWithArrayState(recorded, state, char)

----------------------------------------------------------------------------
(* The documents read, and their structure by the JSON grammar              *)

\* the depth of the values of a contract, and the length of a string body
MaxNesting == 1
MaxUnits == 1

\* a string, from its body
Str(body) == <<"\"">> \o body \o <<"\"">>

\* what a string body is made of: a letter, a bracket, an escaped quote, an
\* escaped backslash
Units == {<<"x">>, <<"}">>, <<"[">>, <<"\\", "\"">>,
          <<"\\", "\\">>}

RECURSIVE Bodies(_)
Bodies(n) ==
    IF n = 0 THEN {<<>>}
    ELSE LET shorter == Bodies(n - 1)
         IN  shorter \cup {b \o u : b \in shorter, u \in Units}

Atoms ==
    {<<"1">>, <<"t", "r", "u", "e">>, <<"n", "u", "l", "l">>}
        \cup {Str(b) : b \in Bodies(MaxUnits)}

KeyBodies == {<<"a">>, <<>>, <<"}">>, <<"\\", "\\">>}

Small == {<<"1">>, <<"{", "}">>}

\* the JSON values nested d times, with one or two items or members
RECURSIVE Values(_)
Values(d) ==
    IF d = 0 THEN Atoms \cup {<<"{", "}">>, <<"[", "]">>}
    ELSE LET inner == Values(d - 1)
         IN  inner \cup {<<"[">> \o v \o <<"]">> : v \in inner}
               \cup {<<"[">> \o v \o <<",", " ">> \o w \o <<"]">> :
                        v \in inner, w \in Small}
               \cup {<<"{">> \o Str(k) \o <<":">> \o v \o <<"}">> :
                        k \in KeyBodies, v \in inner}
               \cup {<<"{">> \o Str(<<"a">>) \o <<":", " ">> \o v \o <<",">>
                          \o Str(<<"b">>) \o <<":">> \o w \o <<"}">> :
                        v \in inner, w \in Small}

\* the objects found where output.contracts is looked for: one or two
\* members, under a name or under the empty key
ContractsObjects ==
    {<<"{">> \o Str(k) \o <<":">> \o v \o <<"}">> :
        k \in {<<"a">>, <<>>}, v \in Values(MaxNesting)}
      \cup {<<"{">> \o Str(<<"a">>) \o <<":">> \o v \o <<",">>
                 \o Str(<<"b">>) \o <<":">> \o w \o <<"}">> :
              v \in Values(0), w \in {<<"{", "}">>} \cup
                                     {<<"{">> \o Str(<<"a">>) \o <<":">>
                                          \o <<"1">> \o <<"}">>}}

\* the value v under the keys of path
RECURSIVE Nest(_, _)
Nest(path, v) ==
    IF path = <<>> THEN v
    ELSE <<"{">> \o Str(Head(path)) \o <<":">> \o Nest(Tail(path), v)
             \o <<"}">>

\* the well-formed documents read: the object at output.contracts, and the
\* same object at other paths
Documents ==
    {Nest(path, o) :
        path \in {<<Output, Contracts>>, <<Contracts>>, <<Output>>,
                  <<Output, <<"x">>, Contracts>>},
        o \in ContractsObjects}

\* an open container of the grammar: its type, the key of the member or the
\* index of the item being read, and the last string read in it
Container(type) == [type |-> type, key |-> <<>>, index |-> 0, last |-> <<>>]

\* the open containers are those of an object that is a direct value of
\* output.contracts, or of something inside it
InContract(open) ==
    /\ Len(open) >= 4
    /\ open[1].type = "object" /\ open[1].key = Output
    /\ open[2].type = "object" /\ open[2].key = Contracts
    /\ open[3].type = "object"
    /\ open[4].type = "object"

\* the structure after one more character, by the JSON grammar: inside a
\* string a backslash escapes the next character, whatever it is, and an
\* unescaped quote ends the string; outside, the brackets open and close
RefStructure(r, char) ==
    LET n == Len(r.open)
    IN  IF r.inString
        THEN IF r.escaped
             THEN [r EXCEPT !.escaped = FALSE, !.text = Append(@, char)]
             ELSE IF char = "\\"
             THEN [r EXCEPT !.escaped = TRUE, !.text = Append(@, char)]
             ELSE IF char = "\""
             THEN [r EXCEPT !.inString = FALSE, !.open[n].last = r.text]
             ELSE [r EXCEPT !.text = Append(@, char)]
        ELSE CASE char = "\"" /\ n > 0 ->
                    [r EXCEPT !.inString = TRUE, !.text = <<>>]
               [] char = "{" -> [r EXCEPT !.open = Append(@, Container("object"))]
               [] char = "[" -> [r EXCEPT !.open = Append(@, Container("array"))]
               [] char \in {"}", "]"} /\ n > 0 ->
                    [r EXCEPT !.open = SubSeq(@, 1, n - 1)]
               [] char = ":" /\ n > 0 ->
                    [r EXCEPT !.open[n].key = r.open[n].last]
               [] char = "," /\ n > 0 ->
                    IF r.open[n].type = "array"
                    THEN [r EXCEPT !.open[n].index = @ + 1]
                    ELSE r
               [] OTHER -> r

\* the structure, with the raw text of the contract object being read and
\* the contract object that the character has closed
Ref(r, char) ==
    LET s == RefStructure(r, char)
        was == InContract(r.open)
        is == InContract(s.open)
        raw == IF was THEN Append(r.raw, char)
               ELSE IF is THEN <<char>> ELSE <<>>
    IN  [s EXCEPT !.raw = raw,
                  !.closed = IF was /\ ~is
                             THEN [is |-> TRUE, key |-> r.open[3].key,
                                   raw |-> raw]
                             ELSE NoRef.closed]

\* stream.on("data"): the next character of the document is given to onChar;
\* an error thrown by onChar ends the process
OnChar ==
    /\ chunk # <<>>
    /\ ~contractTracker.thrown
    /\ contractTracker' = onChar(contractTracker, Head(chunk))
    /\ ref' = Ref(ref, Head(chunk))
    /\ chunk' = Tail(chunk)
    /\ UNCHANGED <<store, pc, gd, pre, faults, last, cli, build>>

InitTracker ==
    /\ hasReleases = FALSE
    /\ releases = EmptyFun
    /\ snapshots = EmptyFun
    /\ tmp = NoTmp
    /\ delta = AbsentDir
    /\ deltaOld = AbsentDir
    /\ pc = "idle"
    /\ gd = NoLocals
    /\ pre = [hasReleases |-> FALSE, releases |-> EmptyFun,
              snapshots |-> EmptyFun, tmp |-> NoTmp, delta |-> AbsentDir,
              deltaOld |-> AbsentDir, build |-> NoBuild.folders,
              good |-> AbsentDir]
    /\ faults = {}
    /\ last = NoScript
    /\ cli = NoCli
    /\ build = NoBuild
    /\ chunk \in Documents
    /\ contractTracker = NoTracker
    /\ ref = NoRef

NextTracker == OnChar

SpecTracker == InitTracker /\ [][NextTracker]_vars

----------------------------------------------------------------------------
(* Properties of the tracker                                                *)

\* what the tracker is to keep in state.levels for an open container that has
\* a container open inside it
Slot(container) ==
    IF container.type = "object"
    THEN ParentLevel("object", container.key, Null)
    ELSE ParentLevel("array", <<>>, container.index)

\* C39: while a well-formed document is read, state.levels holds one entry
\* for every open container but the innermost, each with the key or index at
\* which the next container was opened, none once the root object is closed;
\* after a closing bracket the current level has the parent's key or index;
\* and no character of a string or of a key changes state.levels.
C39_LevelsFollowBrackets ==
    /\ [](~contractTracker.thrown =>
            LET open == ref.open
                n == Len(open)
                levels == contractTracker.levels
                level == contractTracker.currentLevel
            IN  /\ Len(levels) = IF n = 0 THEN 0 ELSE n - 1
                /\ \A i \in 1..Len(levels) : levels[i] = Slot(open[i])
                /\ (n > 0 /\ level.status = "expecting-end-of-value")
                      => (level.type = open[n].type
                            /\ level.key = open[n].key)
                /\ (n > 0 /\ level.status = "expecting-end-of-item")
                      => (level.type = open[n].type
                            /\ level.index = open[n].index))
    /\ [][ref.inString => contractTracker'.levels = contractTracker.levels]_vars

\* C40: recordingKey is defined exactly while an object that is a direct
\* value of output.contracts is open, it is then the key of that object, and
\* when the object closes the string recorded under its key is the text of
\* the document from the opening bracket of the object to its closing one.
C40_RecordsContractObjects ==
    ~contractTracker.thrown =>
        /\ contractTracker.recordingKey.defined <=> InContract(ref.open)
        /\ InContract(ref.open)
              => contractTracker.recordingKey.key = ref.open[3].key
        /\ ref.closed.is
              => (/\ ref.closed.key \in DOMAIN contractTracker.contracts
                  /\ contractTracker.contracts[ref.closed.key]
                        = ref.closed.raw)

====
